---- MODULE Spec2Model ----
(***************************************************************************)
(* Model of the retrieval-augmented-generation core of the Tesseract       *)
(* project: RAGProcessor (src/core/rag_engine/rag_processor.py) and the    *)
(* embedding variant RAGPipeline (src/utils/rag_pipeline.py).              *)
(*                                                                         *)
(* Python str values are TLA+ strings; Optional[str] is a sequence of      *)
(* length at most one (<<>> is None).  A dict is a sequence of key/value   *)
(* records in insertion order with unique keys.                            *)
(***************************************************************************)
EXTENDS Integers, Sequences, FiniteSets, TLC

---------------------------------------------------------------------------
(* Optional values *)

None == <<>>

Some(s) == <<s>>

---------------------------------------------------------------------------
(* The texts of the built-in knowledge: _create_default_index of             *)
(* RAGProcessor and _create_sample_knowledge of RAGPipeline                  *)

LogicalFallaciesText ==
    "Logical fallacies are errors in reasoning that undermine the logic of an argument. Common fallacies include ad hominem (attacking the person), straw man (misrepresenting an opponent's argument), false dichotomy (presenting only two options when others exist), and appeal to authority (using an authority figure to support an argument without evidence)."

ArgumentStructureText ==
    "A strong argument typically consists of a clear claim or thesis statement, supporting evidence (facts, statistics, examples), and a conclusion that follows logically from the evidence. The claim should be specific and debatable, the evidence should be relevant and credible, and the conclusion should summarize the argument and restate the main points."

SpeechFillersText ==
    "Filler words like 'um', 'uh', 'like', and 'you know' can detract from the clarity and impact of speech. Speakers who use excessive fillers may be perceived as less confident or knowledgeable. Techniques to reduce fillers include pausing instead of using fillers, recording and analyzing your speech, and practicing speaking more slowly and deliberately."

ClimateChangeContent ==
    "Multiple lines of evidence confirm that Earth's climate is changing. Global temperatures have risen by about 1.1Â°C since the late 19th century. The rate of warming has doubled since 1981. The past decade was the warmest on record. This warming is primarily driven by human emissions of greenhouse gases, particularly carbon dioxide from burning fossil fuels."

RenewableEnergyContent ==
    "Renewable energy sources like solar and wind power produce electricity without generating greenhouse gas emissions during operation. They have minimal environmental impact compared to fossil fuels and help combat climate change. Additionally, the cost of renewable technologies has decreased significantly, making them economically competitive with conventional energy sources in many markets."

SocialMediaContent ==
    "Social media platforms face increasing calls for regulation due to concerns about privacy, misinformation, and content moderation. Potential regulatory approaches include mandating transparency in algorithms, implementing stronger data protection laws, establishing oversight boards, and clarifying platform liability for user content. Critics argue excessive regulation could stifle innovation and free speech."

FreeCollegeContent ==
    "Proponents of free college education argue it would increase access, reduce student debt, and create a more educated workforce. Opponents contend it would be prohibitively expensive, potentially reduce educational quality, and disproportionately benefit middle and upper-class families who would attend college anyway rather than addressing deeper inequalities in the education system."

\* the text RAGPipeline embeds for a sample item: title + ". " + content
SampleTexts ==
    {"Climate Change Evidence. " \o ClimateChangeContent,
     "Renewable Energy Benefits. " \o RenewableEnergyContent,
     "Social Media Regulation. " \o SocialMediaContent,
     "Free College Education. " \o FreeCollegeContent}

\* the built-in texts, which are long
LongTexts ==
    {LogicalFallaciesText, ArgumentStructureText, SpeechFillersText} \cup SampleTexts

---------------------------------------------------------------------------
(* str methods used by the scorer *)

\* the characters str.split() and str.lower() see in the inputs of the model
Whitespace == {" ", "\t", "\n"}

UpperCase ==
    {"A", "B", "C", "D", "E", "F", "G", "H", "I", "J", "K", "L", "M",
     "N", "O", "P", "Q", "R", "S", "T", "U", "V", "W", "X", "Y", "Z"}

LowerCase ==
    [A |-> "a", B |-> "b", C |-> "c", D |-> "d", E |-> "e", F |-> "f", G |-> "g",
     H |-> "h", I |-> "i", J |-> "j", K |-> "k", L |-> "l", M |-> "m", N |-> "n",
     O |-> "o", P |-> "p", Q |-> "q", R |-> "r", S |-> "s", T |-> "t", U |-> "u",
     V |-> "v", W |-> "w", X |-> "x", Y |-> "y", Z |-> "z"]

\* one character of str.lower()
LowerChar(ch) == IF ch \in UpperCase THEN LowerCase[ch] ELSE ch

RECURSIVE LowerChars(_)
\* every character lowered, by halves to keep the recursion shallow
LowerChars(s) ==
    IF Len(s) = 0 THEN ""
    ELSE IF Len(s) = 1 THEN LowerChar(s)
    ELSE LET half == Len(s) \div 2
         IN  LowerChars(SubSeq(s, 1, half)) \o LowerChars(SubSeq(s, half + 1, Len(s)))

\* the lowered built-in texts, computed once
LoweredLongTexts == [s \in LongTexts |-> LowerChars(s)]

\* str.lower()
Lower(s) == IF s \in LongTexts THEN LoweredLongTexts[s] ELSE LowerChars(s)

RECURSIVE SplitFrom(_, _, _, _)
SplitFrom(s, i, cur, acc) ==
    IF i > Len(s)
    THEN IF cur = "" THEN acc ELSE Append(acc, cur)
    ELSE LET ch == SubSeq(s, i, i)
         IN  IF ch \in Whitespace
             THEN SplitFrom(s, i + 1, "", IF cur = "" THEN acc ELSE Append(acc, cur))
             ELSE SplitFrom(s, i + 1, cur \o ch, acc)

RECURSIVE Split(_)
\* str.split() without arguments: the maximal runs of non-whitespace.  A
\* long string is split at a whitespace character near its middle and the
\* tokens of the two parts are joined.
Split(s) ==
    LET n    == Len(s)
        mid  == (n \div 2) + 1
        cuts == {j \in mid..n : SubSeq(s, j, j) \in Whitespace}
    IN  IF n <= 32 \/ cuts = {}
        THEN SplitFrom(s, 1, "", <<>>)
        ELSE LET cut == CHOOSE j \in cuts : \A k \in cuts : j <= k
             IN  Split(SubSeq(s, 1, cut - 1)) \o Split(SubSeq(s, cut + 1, n))

\* Python's `term in text` on two strings
Contains(text, term) ==
    \E i \in 1..(Len(text) - Len(term) + 1) : SubSeq(text, i, i + Len(term) - 1) = term

---------------------------------------------------------------------------
(* JSON values as the scorer reads them *)

\* a field of a JSON object: a string, a value of another type, or no field
Str(s) == [kind |-> "str", val |-> s]

Absent == [kind |-> "absent", val |-> ""]

NonStr == [kind |-> "other", val |-> ""]

\* a value of the index: a JSON object with the fields of a knowledge item
Obj(text, source, created_at) ==
    [kind |-> "obj", text |-> text, source |-> source, created_at |-> created_at]

\* a value of the index that is not a JSON object (a string, a number, a list)
NonObj == [kind |-> "other", text |-> Absent, source |-> Absent, created_at |-> 0]

\* one key of a dict with its value
Entry(id, data) == [id |-> id, data |-> data]

\* a loaded index that is a dict, with its items in insertion order
Dict(items) == [kind |-> "dict", items |-> items]

\* a loaded index that is valid JSON but not a dict
NonDict == [kind |-> "other", items |-> <<>>]

---------------------------------------------------------------------------
(* Keyword scorer: RAGProcessor._retrieve_from_simple_index *)

\* `len(term) > 3` in the two term comprehensions
MinTermLen == 3

\* `results[:3]`
MaxResults == 3

stop_words ==
    {"with", "that", "from", "this", "have", "they", "their", "what", "when",
     "where", "which", "than"}

Range(seq) == {seq[i] : i \in 1..Len(seq)}

\* the length test as `len(term) > 5`
TermSetLong(s) == {Lower(term) : term \in {t \in Range(Split(s)) : Len(t) > 5}}

\* set([term.lower() for term in s.split() if len(term) > 3])
TermSet(s) == {Lower(term) : term \in {t \in Range(Split(s)) : Len(t) > MinTermLen}}

\* query_terms after the context update and the stop-word filter
QueryTerms(query, context) ==
    LET query_terms   == TermSet(query)
        context_terms == IF context # None /\ context[1] # ""
                         THEN TermSet(context[1]) ELSE {}
    IN  {term \in query_terms \cup context_terms : term \notin stop_words}

\* dict.get(key, default) on a field of an item
Get(field, default) == IF field.kind = "absent" THEN Str(default) ELSE field

\* an item counted only when its text contains every term
CountMatchesAll(query_terms, item_text) ==
    IF \A term \in query_terms : Contains(item_text, term)
    THEN Cardinality(query_terms) ELSE 0

RECURSIVE CountMatches(_, _)
\* the inner loop: score += 1 for every term that occurs in item_text
CountMatches(query_terms, item_text) ==
    IF query_terms = {} THEN 0
    ELSE LET term == CHOOSE x \in query_terms : TRUE
         IN  (IF Contains(item_text, term) THEN 1 ELSE 0)
             + CountMatches(query_terms \ {term}, item_text)

\* the item text matched without .lower()
ItemScoreCaseSensitive(item_data, query_terms) ==
    CountMatches(query_terms, Get(item_data.text, "").val)

\* score of one item: item_data.get("text", "").lower() against the terms
ItemScore(item_data, query_terms) ==
    CountMatches(query_terms, Lower(Get(item_data.text, "").val))

RECURSIVE GCD(_, _)
GCD(a, b) == IF b = 0 THEN a ELSE GCD(b, a % b)

Max(a, b) == IF a >= b THEN a ELSE b

Min(a, b) == IF a <= b THEN a ELSE b

\* the quotient a / b of two small naturals (b > 0), in lowest terms
Quotient(a, b) == LET g == GCD(a, b) IN [num |-> a \div g, den |-> b \div g]

\* x < y on quotients
Less(x, y) == x.num * y.den < y.num * x.den

\* score / max(1, len(query_terms))
RelevanceScore(score, query_terms) == Quotient(score, Max(1, Cardinality(query_terms)))

\* the dict appended to results for an item with score > 0
ResultItem(entry, score, query_terms) ==
    [id              |-> entry.id,
     text            |-> Get(entry.data.text, "").val,
     source          |-> Get(entry.data.source, "unknown").val,
     relevance_score |-> RelevanceScore(score, query_terms)]

\* `score >= 0` for `score > 0`
ScoredOrZero(score) == score >= 0

\* the guard of results.append
Scored(score) == score > 0

RECURSIVE ScoreItems(_, _, _)
\* the loop over knowledge_index.items(), from position i
ScoreItems(items, i, query_terms) ==
    IF i > Len(items) THEN <<>>
    ELSE LET score == ItemScore(items[i].data, query_terms)
         IN  (IF Scored(score)
              THEN <<ResultItem(items[i], score, query_terms)>> ELSE <<>>)
             \o ScoreItems(items, i + 1, query_terms)

RECURSIVE InsertDesc(_, _)

\* an insertion that puts x in front of the elements with an equal key
InsertDescUnstable(sorted, x) ==
    IF sorted = <<>> THEN <<x>>
    ELSE IF ~Less(x.relevance_score, Head(sorted).relevance_score)
         THEN <<x>> \o sorted
         ELSE <<Head(sorted)>> \o InsertDesc(Tail(sorted), x)

\* where list.sort(reverse=True) puts x in an already sorted list: behind
\* every element whose key is not smaller (the sort is stable)
InsertDesc(sorted, x) ==
    IF sorted = <<>> THEN <<x>>
    ELSE IF Less(Head(sorted).relevance_score, x.relevance_score)
         THEN <<x>> \o sorted
         ELSE <<Head(sorted)>> \o InsertDesc(Tail(sorted), x)

RECURSIVE SortFrom(_, _, _)
SortFrom(results, i, sorted) ==
    IF i > Len(results) THEN sorted
    ELSE SortFrom(results, i + 1, InsertDesc(sorted, results[i]))

\* results.sort(key=lambda x: x["relevance_score"], reverse=True)
SortByRelevance(results) == SortFrom(results, 1, <<>>)

\* a slice that ends one element late
PrefixOneMore(seq, k) ==
    IF k >= 0 THEN SubSeq(seq, 1, Min(k + 1, Len(seq)))
    ELSE SubSeq(seq, 1, Max(Len(seq) + k + 1, 0))

\* Python's seq[:k] for any integer k
Prefix(seq, k) ==
    IF k >= 0 THEN SubSeq(seq, 1, Min(k, Len(seq)))
    ELSE SubSeq(seq, 1, Max(Len(seq) + k, 0))

\* the index cannot be scored: .items() of a non-dict, .get of a non-object
\* or .lower() of a non-string raises AttributeError
RetrievalRaises(index) ==
    \/ index.kind # "dict"
    \/ \E i \in 1..Len(index.items) :
          \/ index.items[i].data.kind # "obj"
          \/ index.items[i].data.text.kind = "other"

\* _retrieve_from_simple_index(query, context) on an index it can score
RetrieveFromSimpleIndex(index, query, context) ==
    Prefix(SortByRelevance(ScoreItems(index.items, 1, QueryTerms(query, context))),
           MaxResults)

\* _retrieve_relevant_information: both settings of use_vector_db end in the
\* simple index (_retrieve_from_vector_db is a placeholder that delegates)
RetrieveRelevantInformation(index, use_vector_db, query, context) ==
    IF use_vector_db
    THEN RetrieveFromSimpleIndex(index, query, context)
    ELSE RetrieveFromSimpleIndex(index, query, context)

---------------------------------------------------------------------------
(* Result cache key and the response objects *)

\* hashlib.md5(s.encode()).hexdigest(): the digest stands for the string it
\* was computed from (two different inputs of the model get two digests)
Md5Hex(s) == "md5(" \o s \o ")"

\* the f-string `{query}_{context_str}` with context_str = context or ""
CacheKeyInput(query, context) ==
    query \o "_" \o (IF context = None THEN "" ELSE context[1])

\* _get_cache_key
GetCacheKey(query, context) == Md5Hex(CacheKeyInput(query, context))

\* [info.get("source", "unknown") for info in retrieved_info]
\* the sources of the items that name one
SourcesKnown(retrieved_info) ==
    LET named == SelectSeq(retrieved_info, LAMBDA info : info.source # "unknown")
    IN  [i \in 1..Len(named) |-> named[i].source]

Sources(retrieved_info) ==
    [i \in 1..Len(retrieved_info) |->
        IF "source" \in DOMAIN retrieved_info[i] THEN retrieved_info[i].source ELSE "unknown"]

\* the four-field dict built at lines 63-68, 70-75 and 224-229
Result(query, retrieved_info, response) ==
    [query                 |-> query,
     retrieved_information |-> retrieved_info,
     response              |-> response,
     sources               |-> Sources(retrieved_info)]

NotConfiguredResponse == "OpenAI API key not configured. Using just retrieved information."

NotGeneratedResponse == "Could not generate enhanced response."

\* what the POST to the completion endpoint can come to
ExternalOutcomes == {"ok", "network_error", "timeout", "http_error", "malformed_body"}

\* _generate_with_context after the POST: the result, or the re-raised error
GenerateWithContext(query, retrieved_info, outcome, content) ==
    IF outcome = "ok"
    THEN [raised |-> FALSE, value |-> Result(query, retrieved_info, content)]
    ELSE [raised |-> TRUE,  value |-> Result(query, retrieved_info, "")]

\* the credential test at line 58 gone: generation is always attempted, and
\* without a credential _generate_with_context raises ValueError
EnhancedResultUnguarded(api_key, query, retrieved_info, outcome, content) ==
    LET generated == GenerateWithContext(query, retrieved_info, outcome, content)
    IN  IF api_key = "" \/ generated.raised
        THEN Result(query, retrieved_info, NotGeneratedResponse)
        ELSE generated.value

\* the except branch answering without the retrieved items
EnhancedResultDropsItems(api_key, query, retrieved_info, outcome, content) ==
    IF api_key # ""
    THEN LET generated == GenerateWithContext(query, retrieved_info, outcome, content)
         IN  IF generated.raised
             THEN Result(query, <<>>, NotGeneratedResponse)
             ELSE generated.value
    ELSE Result(query, retrieved_info, NotConfiguredResponse)

\* lines 58-75: the enhanced_result of a request that missed the cache
EnhancedResult(api_key, query, retrieved_info, outcome, content) ==
    IF api_key # ""
    THEN LET generated == GenerateWithContext(query, retrieved_info, outcome, content)
         IN  IF generated.raised
             THEN Result(query, retrieved_info, NotGeneratedResponse)
             ELSE generated.value
    ELSE Result(query, retrieved_info, NotConfiguredResponse)

\* a second attempt after the first POST
PostsWithRetry(api_key) == IF api_key # "" THEN 2 ELSE 0

\* the number of POSTs one pass through lines 58-75 makes
PostsMade(api_key) == IF api_key # "" THEN 1 ELSE 0

\* the cache check gone: every request is a miss
CacheNeverHas(cache, cache_key) == FALSE

\* `cache_key in self.retrieval_cache`
CacheHas(cache, cache_key) == cache_key \in DOMAIN cache

\* a cache that keeps the last stored entry only
CachePutAlone(cache, cache_key, enhanced_result) ==
    [k \in {cache_key} |-> enhanced_result]

\* a cache that stores generated results only
CachePutGenerated(cache, cache_key, enhanced_result) ==
    IF enhanced_result.response = NotGeneratedResponse THEN cache
    ELSE [k \in DOMAIN cache \cup {cache_key} |->
             IF k = cache_key THEN enhanced_result ELSE cache[k]]

\* self.retrieval_cache[cache_key] = enhanced_result
CachePut(cache, cache_key, enhanced_result) ==
    [k \in DOMAIN cache \cup {cache_key} |->
        IF k = cache_key THEN enhanced_result ELSE cache[k]]

---------------------------------------------------------------------------
(* Knowledge store of RAGProcessor: one JSON file holding the whole index *)

NoFile == [kind |-> "none", value |-> NonDict]

\* a file json.load cannot parse (truncated or corrupt)
Unreadable == [kind |-> "unreadable", value |-> NonDict]

\* json.dump(index, f): the file holds the index
JsonFile(index) == [kind |-> "json", value |-> index]

\* _save_knowledge_index: "written", or the open fails and the file stays, or
\* the write fails after open(path, 'w') truncated the file
SaveOutcomes == {"written", "open_failed", "write_failed"}

\* a save that leaves the file as it is
SaveKnowledgeIndexKeepsFile(file, index, outcome) == file

SaveKnowledgeIndex(file, index, outcome) ==
    CASE outcome = "written"      -> JsonFile(index)
      [] outcome = "open_failed"  -> file
      [] outcome = "write_failed" -> Unreadable

\* _create_default_index at time now
DefaultIndex(now) ==
    Dict(<<
      Entry("logical_fallacies", Obj(Str(LogicalFallaciesText),
          Str("Logical Reasoning Guide"), now)),
      Entry("argument_structure", Obj(Str(ArgumentStructureText),
          Str("Debate Handbook"), now)),
      Entry("speech_fillers", Obj(Str(SpeechFillersText),
          Str("Public Speaking Guide"), now)) >>)

\* _load_knowledge_index: the index in memory and the file it leaves behind
LoadKnowledgeIndex(file, now, save_outcome) ==
    IF file.kind = "json"
    THEN [index |-> file.value, file |-> file]
    ELSE [index |-> DefaultIndex(now),
          file  |-> SaveKnowledgeIndex(file, DefaultIndex(now), save_outcome)]

\* str(time.time()) for the clock values of the model
TimeStr(t) == ToString(t) \o ".0"

\* hashlib.md5(f"{text}_{source}_{time.time()}".encode()).hexdigest()[:12]
GeneratedId(text, source, now) ==
    Md5Hex(text \o "_" \o source \o "_" \o TimeStr(now))

\* the key add_to_knowledge_base stores under: `if not item_id` generates one
ItemId(text, source, item_id, now) ==
    IF item_id = None \/ item_id[1] = ""
    THEN GeneratedId(text, source, now) ELSE item_id[1]

HasKey(items, id) == \E i \in 1..Len(items) : items[i].id = id

\* dict[id] = data: an existing key keeps its position, a new key goes last
DictSet(items, id, data) ==
    IF HasKey(items, id)
    THEN [i \in 1..Len(items) |-> IF items[i].id = id THEN Entry(id, data) ELSE items[i]]
    ELSE Append(items, Entry(id, data))

---------------------------------------------------------------------------
(* Embedding variant: RAGPipeline (src/utils/rag_pipeline.py).  A knowledge  *)
(* item is a dict: a function from its field names to their values.         *)

\* the words the stand-in for the SentenceTransformer model looks for
Features == <<"climate", "energy", "fire", "rain">>

\* self.model.encode(text): one component per feature, 1 when the lowered
\* text contains it.  The model is an external library; what the pipeline
\* relies on is that equal texts get equal vectors.
Encode(text) ==
    [i \in 1..Len(Features) |-> IF Contains(Lower(text), Features[i]) THEN 1 ELSE 0]

RECURSIVE DotFrom(_, _, _)
DotFrom(u, v, i) == IF i > Len(u) THEN 0 ELSE u[i] * v[i] + DotFrom(u, v, i + 1)

Dot(u, v) == DotFrom(u, v, 1)

\* cosine_similarity([u], [v])[0][0], kept as the square of the cosine:
\* the components are not negative, so the cosine lies in [0, 1] and the
\* square orders the same way; a zero vector has similarity 0
CosineSimilarity(u, v) ==
    IF Dot(u, u) = 0 \/ Dot(v, v) = 0 THEN Quotient(0, 1)
    ELSE Quotient(Dot(u, v) * Dot(u, v), Dot(u, u) * Dot(v, v))

\* item.get(key, default) on a dict
DictGet(item, key, default) == IF key \in DOMAIN item THEN item[key] ELSE default

\* the dict with one more (or one replaced) field
With(item, key, value) ==
    [k \in DOMAIN item \cup {key} |-> IF k = key THEN value ELSE item[k]]

\* {k: v for k, v in item.items() if k != "embedding"}
WithoutEmbedding(item) == [k \in DOMAIN item \ {"embedding"} |-> item[k]]

\* the text both load and add embed for an item
TextToEmbed(title, content) == title \o ". " \o content

\* the knowledge_item dict add_knowledge builds
KnowledgeItem(title, topic, content, source) ==
    [title |-> title, topic |-> topic, content |-> content, source |-> source,
     embedding |-> Encode(TextToEmbed(title, content))]

\* _create_sample_knowledge
SampleKnowledge ==
    << [title |-> "Climate Change Evidence", topic |-> "climate change",
        content |-> ClimateChangeContent,
        source |-> "Scientific consensus"],
       [title |-> "Renewable Energy Benefits", topic |-> "renewable energy",
        content |-> RenewableEnergyContent,
        source |-> "Energy research"],
       [title |-> "Social Media Regulation", topic |-> "social media",
        content |-> SocialMediaContent,
        source |-> "Policy research"],
       [title |-> "Free College Education", topic |-> "education",
        content |-> FreeCollegeContent,
        source |-> "Education policy analysis"] >>

\* one file of the knowledge directory: its name and what json.load makes of
\* it, a list of items (a file holding one object is the list of that object)
File(name, items) == [name |-> name, readable |-> TRUE, items |-> items]

\* a .json file that open or json.load raises on
UnreadableFile(name) == [name |-> name, readable |-> FALSE, items |-> <<>>]

RECURSIVE LoadFiles(_, _)
\* the loop over os.listdir: every .json file that loads extends
\* knowledge_items, a file that raises is reported and passed over
LoadFiles(dir, i) ==
    IF i > Len(dir) THEN <<>>
    ELSE (IF dir[i].readable THEN dir[i].items ELSE <<>>) \o LoadFiles(dir, i + 1)

\* the file of that name written (or overwritten) with items
WriteFile(dir, name, items) ==
    IF \E i \in 1..Len(dir) : dir[i].name = name
    THEN [i \in 1..Len(dir) |-> IF dir[i].name = name THEN File(name, items) ELSE dir[i]]
    ELSE Append(dir, File(name, items))

\* _save_knowledge_item: the write, or the directory as it was when it fails
SaveKnowledgeItem(dir, items, filename, written) ==
    IF written THEN WriteFile(dir, filename, items) ELSE dir

\* the items lines 57-61 compute an embedding for: those that have none
Unembedded(items) == {i \in 1..Len(items) : "embedding" \notin DOMAIN items[i]}

\* lines 60: item["title"] and item["content"] raise KeyError on an item
\* that has no embedding and lacks one of them
EmbeddingRaises(items) ==
    \E i \in Unembedded(items) : ~ ({"title", "content"} \subseteq DOMAIN items[i])

\* lines 57-61: an embedding for every item that has none
WithEmbeddings(items) ==
    [i \in 1..Len(items) |->
        IF "embedding" \in DOMAIN items[i] THEN items[i]
        ELSE With(items[i], "embedding",
                  Encode(TextToEmbed(items[i]["title"], items[i]["content"])))]

\* _load_knowledge_base: the list in memory and the directory it leaves, or
\* the KeyError that leaves it
LoadKnowledgeBase(dir, written) ==
    LET knowledge_items == LoadFiles(dir, 1)
    IN  IF knowledge_items = <<>>
        THEN [raised |-> FALSE,
              items  |-> WithEmbeddings(SampleKnowledge),
              dir    |-> SaveKnowledgeItem(dir, SampleKnowledge, "sample_knowledge.json", written)]
        ELSE IF EmbeddingRaises(knowledge_items)
        THEN [raised |-> TRUE, items |-> <<>>, dir |-> dir]
        ELSE [raised |-> FALSE, items |-> WithEmbeddings(knowledge_items), dir |-> dir]

\* str.replace(' ', '_')
RECURSIVE ReplaceSpaces(_)
ReplaceSpaces(s) ==
    IF s = "" THEN ""
    ELSE (IF Head(s) = " " THEN "_" ELSE Head(s)) \o ReplaceSpaces(Tail(s))

\* f"{topic.replace(' ', '_')}_{len(self.knowledge_base)}.json"
ItemFilename(topic, length) == ReplaceSpaces(topic) \o "_" \o ToString(length) \o ".json"

\* a retrieve that ignores the topic
CandidatesAll(knowledge_base, topic) == knowledge_base

\* the topic filter of retrieve
Candidates(knowledge_base, topic) ==
    IF topic # ""
    THEN SelectSeq(knowledge_base,
                   LAMBDA item : Contains(Lower(DictGet(item, "topic", "")), Lower(topic)))
    ELSE knowledge_base

\* the (item, similarity) pairs of retrieve, in candidate order
Similarities(candidates, query_embedding) ==
    [i \in 1..Len(candidates) |->
        [item            |-> candidates[i],
         relevance_score |-> CosineSimilarity(query_embedding, candidates[i]["embedding"])]]

\* item_copy with its relevance_score
ItemCopy(pair) == With(WithoutEmbedding(pair.item), "relevance_score", pair.relevance_score)

\* RAGPipeline.retrieve(query, topic, top_k)
Retrieve(knowledge_base, query, topic, top_k) ==
    IF knowledge_base = <<>> THEN <<>>
    ELSE LET candidates == Candidates(knowledge_base, topic)
         IN  IF candidates = <<>> THEN <<>>
             ELSE LET sorted_items == SortByRelevance(Similarities(candidates, Encode(query)))
                      top          == Prefix(sorted_items, top_k)
                  IN  [i \in 1..Len(top) |-> ItemCopy(top[i])]

\* a threshold that any positive similarity passes
HighlyRelevantAny(score) == score.num > 0

\* item["relevance_score"] > 0.6, on the square of the cosine: above 0.36
HighlyRelevant(score) == score.num * 25 > score.den * 9

\* the `enhanced` dict enhance_counterpoints appends for one counterpoint
EnhancedCounterpoint(knowledge_base, counterpoint, topic) ==
    LET text            == counterpoint["text"]
        retrieved_items == Retrieve(knowledge_base, text, topic, 1)
    IN  IF retrieved_items # <<>> /\ HighlyRelevant(retrieved_items[1]["relevance_score"])
        THEN LET item == retrieved_items[1]
             IN  With(With(With(counterpoint,
                                "text", text \o " This is supported by evidence: "
                                             \o item["content"]),
                           "source", item["source"]),
                      "knowledge_enhanced", TRUE)
        ELSE With(counterpoint, "knowledge_enhanced", FALSE)

\* counterpoint["text"], item["content"] or item["source"] raises KeyError
EnhanceRaises(knowledge_base, counterpoints_in, topic) ==
    \E i \in 1..Len(counterpoints_in) :
        \/ "text" \notin DOMAIN counterpoints_in[i]
        \/ LET retrieved_items == Retrieve(knowledge_base, counterpoints_in[i]["text"],
                                           topic, 1)
           IN  /\ retrieved_items # <<>>
               /\ HighlyRelevant(retrieved_items[1]["relevance_score"])
               /\ ~({"content", "source"} \subseteq DOMAIN retrieved_items[1])

\* RAGPipeline.enhance_counterpoints(counterpoints, topic)
EnhanceCounterpoints(knowledge_base, counterpoints_in, topic) ==
    IF EnhanceRaises(knowledge_base, counterpoints_in, topic)
    THEN [raised |-> TRUE, counterpoints |-> <<>>]
    ELSE [raised |-> FALSE,
          counterpoints |-> [i \in 1..Len(counterpoints_in) |->
                                EnhancedCounterpoint(knowledge_base, counterpoints_in[i],
                                                     topic)]]

---------------------------------------------------------------------------
(* Sentences of an argument, as both engines cut them *)

\* s.split(sep) for a one-character separator: the pieces between the
\* separators, empty pieces kept
SplitOn(s, sep) ==
    LET cuts   == {i \in 1..Len(s) : SubSeq(s, i, i) = sep}
        cut(j) == IF j = 0 THEN 0
                  ELSE IF j > Cardinality(cuts) THEN Len(s) + 1
                  ELSE CHOOSE i \in cuts : Cardinality({c \in cuts : c < i}) = j - 1
    IN  [j \in 1..(Cardinality(cuts) + 1) |-> SubSeq(s, cut(j - 1) + 1, cut(j) - 1)]

\* s.strip()
Strip(s) ==
    LET inked == {i \in 1..Len(s) : SubSeq(s, i, i) \notin Whitespace}
    IN  IF inked = {} THEN ""
        ELSE SubSeq(s, CHOOSE i \in inked : \A k \in inked : i <= k,
                       CHOOSE i \in inked : \A k \in inked : i >= k)

\* [s.strip() for s in text.split('.') if s.strip()]
Sentences(text) ==
    LET parts == SplitOn(text, ".")
    IN  SelectSeq([i \in 1..Len(parts) |-> Strip(parts[i])], LAMBDA x : x # "")

\* any(marker in text for marker in markers)
AnyIn(markers, text) == \E marker \in markers : Contains(text, marker)

\* seq[1:]
Rest(seq) == IF seq = <<>> THEN <<>> ELSE Tail(seq)

---------------------------------------------------------------------------
(* CounterpointEngine (src/core/debate_engine/counterpoint_engine.py) *)

\* min(max(level, 1), 3)
ClampLevel(l) == Min(Max(l, 1), 3)

\* self.strategy_templates; format() fills a template with the claim and with
\* phrases drawn at random, which are left out here: a text is its template
StrategyTemplates ==
    [evidence_challenge |->
        <<"The evidence provided for {claim} is inadequate because {reason}.",
          "While {claim} may sound plausible, the evidence cited is problematic: {reason}.">>,
     causal_fallacy |->
        <<"The argument incorrectly assumes that {claimed_cause} causes {effect}, when in fact {alternative}.",
          "The causal relationship between {claimed_cause} and {effect} is questionable. A more likely explanation is {alternative}.">>,
     false_dichotomy |->
        <<"This argument presents a false choice between {option1} and {option2}. In reality, {alternative}.",
          "Reducing this complex issue to a choice between {option1} and {option2} ignores that {alternative}.">>,
     alternative_perspective |->
        <<"From a different perspective, {claim} actually leads to {alternative_outcome}.",
          "Looking at this issue through the lens of {perspective}, we see that {alternative_view}.">>,
     unintended_consequences |->
        <<"While {proposal} might achieve {intended_outcome}, it would also cause {negative_consequence}.",
          "The proposal to {proposal} overlooks the serious side effect of {negative_consequence}.">>]

\* self.attack_types
AttackTypes ==
    [evidence_challenge |-> "evidential", causal_fallacy |-> "causal",
     false_dichotomy |-> "logical", alternative_perspective |-> "perspectival",
     unintended_consequences |-> "consequential"]

\* the markers of evidence in _analyze_argument
EvidenceMarkers ==
    {"because", "since", "given that", "research", "studies", "data", "evidence"}

\* _analyze_argument(argument, topic)
AnalyzeArgument(argument, topic) ==
    LET sentences == Sentences(argument)
        claim     == IF sentences # <<>> THEN sentences[1] ELSE argument
        evidence  == SelectSeq(Rest(sentences),
                               LAMBDA sentence : AnyIn(EvidenceMarkers, Lower(sentence)))
    IN  [claim     |-> IF topic # "" /\ Len(claim) < 50
                       THEN claim \o " regarding " \o topic ELSE claim,
         evidence  |-> evidence,
         full_text |-> argument,
         topic     |-> topic]

\* available_strategies before the shuffle
AvailableStrategies(components) ==
    (IF components.evidence # <<>> THEN <<"evidence_challenge">> ELSE <<>>)
       \o <<"false_dichotomy", "alternative_perspective", "unintended_consequences">>

\* what random.shuffle can make of the list
Shuffles(seq) ==
    {p \in [1..Len(seq) -> Range(seq)] : \A i, j \in 1..Len(seq) : p[i] = p[j] => i = j}

\* the slice _select_strategies returns
SelectStrategies(shuffled, engine_level) ==
    IF engine_level = 1 THEN Prefix(shuffled, 2)
    ELSE IF engine_level = 2 THEN Prefix(shuffled, 3)
    ELSE Prefix(shuffled, 4)

\* _generate_counterpoint(components, strategy) with the template it drew
GenerateCounterpoint(strategy, template) ==
    [text        |-> StrategyTemplates[strategy][template],
     strategy    |-> strategy,
     attack_type |-> AttackTypes[strategy]]

\* the templates of _generate_generic_counterpoint
GenericTemplates(claim) ==
    <<"The argument that " \o claim \o " fails to consider important alternatives.",
      "While " \o claim
         \o " has some merit, it overlooks critical factors that lead to a different conclusion.",
      "The reasoning behind " \o claim
         \o " contains logical gaps that undermine its conclusion.",
      "A more careful analysis of " \o claim
         \o " reveals flaws in its underlying assumptions.">>

\* _generate_generic_counterpoint(components) with the template it drew
GenerateGenericCounterpoint(components, template) ==
    [text        |-> GenericTemplates(components.claim)[template],
     strategy    |-> "generic_challenge",
     attack_type |-> "general"]

\* strategy_strength.get(cp["strategy"], 0)
StrategyStrength(strategy) ==
    CASE strategy = "evidence_challenge"      -> 5
      [] strategy = "causal_fallacy"          -> 4
      [] strategy = "false_dichotomy"         -> 3
      [] strategy = "alternative_perspective" -> 2
      [] strategy = "unintended_consequences" -> 4
      [] strategy = "generic_challenge"       -> 1
      [] OTHER                                -> 0

\* the first counterpoint of the list, whatever its strategy
FindFirstCounterpoint(cps) == IF cps = <<>> THEN None ELSE Some(cps[1])

\* _find_strongest_counterpoint: max() keeps the first of the strongest
FindStrongestCounterpoint(cps) ==
    IF cps = <<>> THEN None
    ELSE LET strongest(i) == \A j \in 1..Len(cps) :
                                StrategyStrength(cps[j].strategy)
                                   <= StrategyStrength(cps[i].strategy)
             first == CHOOSE i \in 1..Len(cps) :
                         strongest(i) /\ \A j \in 1..(i - 1) : ~strongest(j)
         IN  Some(cps[first])

\* strategy_difficulty.get(strongest["strategy"], 0), in hundredths
StrategyDifficulty(strategy) ==
    CASE strategy = "evidence_challenge"      -> 20
      [] strategy = "causal_fallacy"          -> 15
      [] strategy = "false_dichotomy"         -> 10
      [] strategy = "alternative_perspective" -> 5
      [] strategy = "unintended_consequences" -> 15
      [] strategy = "generic_challenge"       -> 5
      [] OTHER                                -> 0

\* _calculate_rebuttal_difficulty, in hundredths
RebuttalDifficulty(cps, engine_level) ==
    IF cps = <<>> THEN 0
    ELSE Min(100, 30 * engine_level
                    + StrategyDifficulty(FindStrongestCounterpoint(cps)[1].strategy))

\* the dict generate_counterpoints returns
CounterpointsResult(components, cps, engine_level) ==
    [counterpoints          |-> cps,
     strongest_counterpoint |-> FindStrongestCounterpoint(cps),
     rebuttal_difficulty    |-> RebuttalDifficulty(cps, engine_level),
     argument_summary       |-> components.claim]

---------------------------------------------------------------------------
(* ChainOfThoughtProcessor (src/core/reasoning_engine/cot_processor.py) *)

\* self.evidence_keywords
evidence_keywords ==
    {"because", "since", "given that", "research", "studies", "data", "evidence",
     "according to", "example", "for instance"}

conclusion_indicators == {"therefore", "thus", "hence", "in conclusion", "consequently"}

\* _extract_claim
ExtractClaim(text) ==
    LET sentences == Sentences(text)
    IN  IF sentences = <<>> THEN "" ELSE sentences[1]

\* _extract_evidence
ExtractEvidence(text) ==
    SelectSeq(Rest(Sentences(text)),
              LAMBDA sentence : AnyIn(evidence_keywords, Lower(sentence)))

\* _extract_conclusion
ExtractConclusion(text) ==
    LET sentences == Sentences(text)
        last      == sentences[Len(sentences)]
    IN  IF Len(sentences) <= 1 THEN ""
        ELSE IF AnyIn(conclusion_indicators, Lower(last)) THEN last
        ELSE IF last # ExtractClaim(text) THEN last
        ELSE ""

\* _generate_reasoning_steps at the processor's complexity level
GenerateReasoningSteps(claim, evidence, conclusion, cot_level) ==
    <<"Identified claim: " \o claim>>
    \o (IF evidence # <<>>
        THEN [i \in 1..Len(evidence) |-> "Evidence " \o ToString(i) \o ": " \o evidence[i]]
        ELSE <<"No explicit evidence was provided to support the claim.">>)
    \o (IF conclusion # ""
        THEN <<"Conclusion: " \o conclusion>>
        ELSE <<"No explicit conclusion was drawn from the evidence.">>)
    \o (IF cot_level >= 2 /\ evidence # <<>>
        THEN <<"The evidence appears to be "
                  \o (IF Len(evidence) >= 2
                      THEN "relatively strong with multiple supporting points."
                      ELSE "somewhat limited with only one supporting point.")>>
        ELSE <<>>)
    \o (IF cot_level >= 2 /\ claim # "" /\ evidence # <<>> /\ conclusion # ""
        THEN <<"The argument has a complete structure with claim, evidence, and conclusion.">>
        ELSE IF cot_level >= 2 /\ claim # "" /\ evidence # <<>>
        THEN <<"The argument provides evidence but lacks a clear conclusion.">>
        ELSE IF cot_level >= 2 /\ claim # "" /\ conclusion # ""
        THEN <<"The argument states a conclusion but lacks supporting evidence.">>
        ELSE <<>>)
    \o (IF cot_level >= 3
        THEN <<"A potential counterargument could challenge the assumption that the evidence directly supports the claim.">>
        ELSE <<>>)
    \o (IF cot_level >= 3 /\ evidence # <<>>
        THEN <<"The relevance of the evidence to the claim could be strengthened with more direct connections.">>
        ELSE <<>>)

\* _calculate_validity_score as an exact fraction (the float the code
\* computes falls on the same side of 0.4 and of 0.7 in every case)
CalculateValidityScore(claim, evidence, conclusion) ==
    Quotient(Min(300, 150
                      + (IF claim # "" THEN 30 ELSE 0)
                      + 20 * Min(3, Len(evidence))
                      + (IF conclusion # "" THEN 30 ELSE 0)
                      + (IF claim # "" /\ evidence # <<>> /\ conclusion # "" THEN 30 ELSE 0)),
             300)

\* _generate_suggestions
GenerateSuggestions(validity_score, claim, evidence, conclusion) ==
    (IF claim = "" THEN <<"Start with a clear claim that states your position.">> ELSE <<>>)
    \o (IF evidence = <<>>
        THEN <<"Add specific evidence to support your claim (facts, statistics, or examples).">>
        ELSE IF Len(evidence) < 2
        THEN <<"Include more pieces of evidence to strengthen your argument.">>
        ELSE <<>>)
    \o (IF conclusion = ""
        THEN <<"End with a conclusion that follows from your evidence.">> ELSE <<>>)
    \o (IF validity_score.num * 10 < validity_score.den * 4
        THEN <<"Consider restructuring your argument to follow a clear claim-evidence-conclusion format.">>
        ELSE IF validity_score.num * 10 < validity_score.den * 7
        THEN <<"Make sure your evidence directly supports your claim and leads to your conclusion.">>
        ELSE <<>>)

\* _generate_simple_counterpoints
GenerateSimpleCounterpoints(claim) ==
    IF claim = "" THEN <<>>
    ELSE <<[text        |-> "The claim that " \o claim \o " may not consider all perspectives.",
            strategy    |-> "alternative_perspective",
            attack_type |-> "perspectival"],
           [text        |-> "While " \o claim \o " has merit, it overlooks important factors.",
            strategy    |-> "contextual_challenge",
            attack_type |-> "contextual"],
           [text        |-> "The evidence for " \o claim \o " might be insufficient.",
            strategy    |-> "evidence_challenge",
            attack_type |-> "evidential"]>>

\* lines 62-95: the analysis the processor makes itself
LocalAnalysis(argument_text, cot_level) ==
    LET clean_text     == Strip(argument_text)
        claim          == ExtractClaim(clean_text)
        evidence       == ExtractEvidence(clean_text)
        conclusion     == ExtractConclusion(clean_text)
        validity_score == CalculateValidityScore(claim, evidence, conclusion)
        simple         == GenerateSimpleCounterpoints(claim)
    IN  [original_argument       |-> argument_text,
         claim                   |-> claim,
         evidence                |-> evidence,
         conclusion              |-> conclusion,
         reasoning_steps         |-> GenerateReasoningSteps(claim, evidence, conclusion,
                                                            cot_level),
         validity_score          |-> validity_score,
         improvement_suggestions |-> GenerateSuggestions(validity_score, claim, evidence,
                                                         conclusion),
         counterpoints           |-> simple,
         strongest_counterpoint  |-> IF simple # <<>> THEN Some(simple[1]) ELSE None,
         rebuttal_difficulty     |-> Quotient(1, 2)]

\* what the POST of _process_with_ai can come to
AiOutcomes == {"ok", "timeout"}

\* the JSON object a completion holds, as _process_with_ai returns it: with
\* the original argument added
AiAnalysis(argument_text, cot_level) ==
    [claim                   |-> "The stated position",
     evidence                |-> <<>>,
     conclusion              |-> "",
     reasoning_steps         |-> <<"Analysed at complexity level " \o ToString(cot_level)>>,
     validity_score          |-> Quotient(1, 2),
     improvement_suggestions |-> <<>>,
     counterpoints           |-> <<>>,
     original_argument       |-> argument_text]

\* hash(s): the hash stands for the string it was computed from
HashOf(s) == "hash(" \o s \o ")"

\* hash(f"{argument_text}_{self.complexity_level}")
ProcessCacheKey(argument_text, cot_level) ==
    HashOf(argument_text \o "_" \o ToString(cot_level))

\* process_argument: the dict it returns and the cache after the call.  The
\* dict returned is the object the cache holds under cache_key, on a hit
\* (line 51) and on a miss (lines 82-83, 97-98) alike.
ProcessArgument(cache, cot_level, api_key, argument_text, outcome) ==
    LET cache_key == ProcessCacheKey(argument_text, cot_level)
        analysis  == IF cache_key \in DOMAIN cache THEN cache[cache_key]
                     ELSE IF api_key # "" /\ outcome = "ok"
                     THEN AiAnalysis(argument_text, cot_level)
                     ELSE LocalAnalysis(argument_text, cot_level)
    IN  [result |-> analysis, cache |-> With(cache, cache_key, analysis),
         cache_key |-> cache_key]

---------------------------------------------------------------------------
(* Bounds and inputs *)

\* requests in flight at once
NumThreads == 2

\* retrieve_and_generate calls in one run
MaxRequests == 2

\* add_to_knowledge_base calls in one run
MaxAdds == 1

\* add_to_knowledge_base calls when the calls overlap
MaxInserts == 2

\* direct calls of generate_counterpoints in a run
MaxCalls == 1

\* the levels a CounterpointEngine is constructed with
EngineLevels == 0..4

\* the arguments, topics and counts generate_counterpoints is called with
CounterpointArguments ==
    {"", "Cars cause harm", "Cars cause harm. Studies show it. Ban cars"}

CounterpointTopics == {"", "cars"}

Counts == {-1, 0, 1, 4}

\* requests the web layer serves in one run
MaxServed == 2

\* `count: int = 3`
DefaultCount == 3

\* the levels a request can carry: Field(1, ge=1, le=3), 1 when omitted
RequestLevels == 1..3

\* bodies of POST /reasoning/analyze-argument
ArgumentRequests ==
    [text             : {"Fire makes smoke",
                         "Cars cause harm. Studies show it. Therefore ban cars"},
     complexity_level : RequestLevels,
     context          : {None, Some("smoke")}]

\* bodies of POST /debate/generate-counterpoints
CounterpointRequests ==
    [argument : {"Cars cause harm"},
     topic    : {""},
     level    : RequestLevels]

\* the last value time.time() takes in one run
MaxClock == 0

\* constructions of the pipeline after the first in one run
MaxRestarts == 1

Threads == 1..NumThreads

Times == 0..MaxClock

\* index files left by earlier runs: items with and without the optional fields
SeedIndex ==
    Dict(<<
      Entry("k1", Obj(Str("Campfire smoke rises"), Str("Field Guide"), 0)),
      Entry("k2", Obj(Str("Smoke and FIRE"), Absent, 0)),
      Entry("k3", Obj(Str("Rain puts out fire"), Str("Almanac"), 0)),
      Entry("k4", Obj(Absent, Str("Blank page"), 0)) >>)

\* files whose every item is an object with a string text, if it has a text
WellFormedFiles == {NoFile, Unreadable, JsonFile(Dict(<<>>)), JsonFile(SeedIndex)}

\* valid JSON that is not a dict of such items
MalformedFiles ==
    {JsonFile(NonDict),
     JsonFile(Dict(<<Entry("k1", Obj(Str("Campfire smoke rises"), Str("Field Guide"), 0)),
                     Entry("k2", NonObj)>>)),
     JsonFile(Dict(<<Entry("k1", Obj(NonStr, Str("Field Guide"), 0))>>))}

\* OPENAI_API_KEY in the environment of the process
ApiKeys == {"", "sk-test"}

\* (query, context) arguments of retrieve_and_generate
RequestInputs ==
    {<<"fire Smoke FIRE", None>>,
     <<"What is Fire", Some("with rain")>>,
     <<"is it so", Some("")>>,
     <<"smoke_fire", None>>,
     <<"smoke", Some("fire_")>>,
     <<"Is climate change caused by humans?", None>>}

\* the text of a completion in a well-formed 2xx body
Completions == {"Fire makes smoke [Field Guide].", ""}

\* (text, source, item_id) arguments of add_to_knowledge_base
AddInputs ==
    {<<"Wildfire smoke", "Notes", None>>,
     <<"Smoke signal", "Notes", None>>,
     <<ClimateChangeContent, "Scientific consensus", Some("k3")>>}

---------------------------------------------------------------------------
(* State *)

VARIABLES
    knowledge_index,    \* self.knowledge_index
    retrieval_cache,    \* self.retrieval_cache: cache key -> result
    openai_api_key,     \* self.openai_api_key
    use_vector_db,      \* self.use_vector_db
    index_file,         \* data/knowledge_base/knowledge_index.json
    clock,              \* the last value time.time() returned
    pc,                 \* per request: where it is in retrieve_and_generate
    args,               \* per request: <<query, context>>
    retrieved_info,     \* per request: the local retrieved_info
    result,             \* per request: the value it returns
    posts,              \* per request: POSTs to the completion endpoint so far
    external,           \* per request: "ok" or "failed" once it has made its POST
    completion,         \* per request: the content of the 2xx body it received
    trace,              \* per request: the states it has been in
    prior,              \* per request: what an earlier call with these arguments returned
    scan,               \* per request: the iterator over knowledge_index.items()
    returned,           \* <<query, context>> -> result of the first call that returned
    requests,           \* retrieve_and_generate calls so far
    adds,               \* add_to_knowledge_base calls so far
    added,              \* the ids add_to_knowledge_base has returned
    last_save,          \* how the save of the latest add_to_knowledge_base ended
    knowledge_base,     \* RAGPipeline.knowledge_base
    knowledge_dir,      \* the .json files of data/knowledge, in os.listdir order
    retrieve_args,      \* <<query, topic, top_k>> of the last RAGPipeline.retrieve
    retrieve_out,       \* what that call returned
    pipeline_adds,      \* add_knowledge calls so far
    pipeline_pc,        \* "Absent", "Ready", or "Raised" when the constructor failed
    restarts,           \* constructions of the pipeline after the first
    enhance_args,       \* <<counterpoints, topic>> of the last enhance_counterpoints
    enhance_out,        \* what that call returned
    level,              \* counterpoint_engine.level
    cp_pc,              \* where the generate_counterpoints call in progress is
    cp_args,            \* <<argument, topic, count>> of that call
    components,         \* what _analyze_argument made of the argument
    strategies,         \* its list of strategies still to be used
    counterpoints,      \* its list of counterpoints so far
    cp_result,          \* the dict it returned
    complexity_level,   \* cot_processor.complexity_level
    process_cache,      \* cot_processor.process_cache
    web_request,        \* the request the web layer served last
    web_response,       \* the body it answered with
    served              \* requests the web layer has served

vars == <<knowledge_index, retrieval_cache, openai_api_key, use_vector_db,
          index_file, clock, pc, args, retrieved_info, result, posts, external,
          completion, trace, prior, scan, returned, requests, adds, added, last_save,
          knowledge_base, knowledge_dir, retrieve_args, retrieve_out, pipeline_adds,
          pipeline_pc, restarts, enhance_args, enhance_out, level, cp_pc, cp_args,
          components, strategies, counterpoints, cp_result, complexity_level, process_cache,
          web_request, web_response, served>>

config == <<openai_api_key, use_vector_db>>

locals == <<pc, args, retrieved_info, result, posts, external, completion, trace, prior,
            scan>>

store == <<knowledge_index, index_file, clock, adds, added, last_save>>

processor == <<knowledge_index, retrieval_cache, openai_api_key, use_vector_db,
               index_file, clock, pc, args, retrieved_info, result, posts, external,
               completion, trace, prior, scan, returned, requests, adds, added,
               last_save>>

pipeline == <<knowledge_base, knowledge_dir, retrieve_args, retrieve_out, pipeline_adds,
              pipeline_pc, restarts>>

enhancement == <<enhance_args, enhance_out>>

engine == <<level, cp_pc, cp_args, components, strategies, counterpoints, cp_result>>

cot == <<complexity_level, process_cache>>

web == <<web_request, web_response, served>>

server == <<engine, cot, web>>

NoRetrieve == <<"", "", 0>>

NoEnhance == <<<<>>, "">>

NoCall == <<"", "", 0>>

NoComponents == [claim |-> "", evidence |-> <<>>, full_text |-> "", topic |-> ""]

\* enhance_counterpoints has not been called
EnhancementAbsent ==
    /\ enhance_args = NoEnhance
    /\ enhance_out = [raised |-> FALSE, counterpoints |-> <<>>]

\* the engines as constructed with the given levels, and no request served
ServerOn(engine_level, cot_level) ==
    /\ level = ClampLevel(engine_level)
    /\ cp_pc = "Idle"
    /\ cp_args = NoCall
    /\ components = NoComponents
    /\ strategies = <<>>
    /\ counterpoints = <<>>
    /\ cp_result = None
    /\ complexity_level = ClampLevel(cot_level)
    /\ process_cache = <<>>
    /\ web_request = <<>>
    /\ web_response = <<>>
    /\ served = 0

\* the singletons of the web layer, which take no step in a run of the
\* processor or of the pipeline alone
ServerAbsent == ServerOn(2, 2)

\* rag_pipeline = None: get_rag_pipeline() has not been called
PipelineAbsent ==
    /\ knowledge_base = <<>>
    /\ knowledge_dir = <<>>
    /\ retrieve_args = NoRetrieve
    /\ retrieve_out = <<>>
    /\ pipeline_adds = 0
    /\ pipeline_pc = "Absent"
    /\ restarts = 0

NoArgs == <<"", None>>

NoResult == Result("", <<>>, "")

\* no iterator: the request is not in the scoring loop
NoScan == [pos |-> 0, used |-> 0]

\* states of a request that has its return value, or its exception
Terminal == {"CacheHit", "Generated", "FallbackUsed", "Raised"}

\* RAGProcessor.__init__ on the file it finds
InitOn(files) ==
    /\ clock = 0
    /\ \E file \in files, save_outcome \in SaveOutcomes :
          LET loaded == LoadKnowledgeIndex(file, clock, save_outcome)
          IN  /\ knowledge_index = loaded.index
              /\ index_file = loaded.file
    /\ retrieval_cache = <<>>
    /\ openai_api_key \in ApiKeys
    /\ use_vector_db \in BOOLEAN
    /\ pc = [t \in Threads |-> "Idle"]
    /\ args = [t \in Threads |-> NoArgs]
    /\ retrieved_info = [t \in Threads |-> <<>>]
    /\ result = [t \in Threads |-> NoResult]
    /\ posts = [t \in Threads |-> 0]
    /\ external = [t \in Threads |-> "none"]
    /\ completion = [t \in Threads |-> None]
    /\ trace = [t \in Threads |-> <<>>]
    /\ prior = [t \in Threads |-> None]
    /\ scan = [t \in Threads |-> NoScan]
    /\ returned = <<>>
    /\ requests = 0
    /\ adds = 0
    /\ added = {}
    /\ last_save = "none"
    /\ PipelineAbsent
    /\ EnhancementAbsent
    /\ ServerAbsent

Init == InitOn(WellFormedFiles)

\* the handlers of the web layer are coroutines that call the processor
\* without awaiting: one request runs from call to return before the next
Serial(t) == \A u \in Threads \ {t} : pc[u] = "Idle"

\* a caller enters retrieve_and_generate(query, context)
Request(t) ==
    /\ pc[t] = "Idle"
    /\ requests < MaxRequests
    /\ \E input \in RequestInputs :
          /\ args' = [args EXCEPT ![t] = input]
          /\ prior' = [prior EXCEPT ![t] =
                          IF input \in DOMAIN returned THEN Some(returned[input]) ELSE None]
    /\ pc' = [pc EXCEPT ![t] = "NotStarted"]
    /\ trace' = [trace EXCEPT ![t] = <<"NotStarted">>]
    /\ posts' = [posts EXCEPT ![t] = 0]
    /\ requests' = requests + 1
    /\ UNCHANGED <<retrieval_cache, config, store, retrieved_info, result, external,
                   completion, returned, pipeline, enhancement, server, scan>>

\* lines 49-55: the cache check, and on a miss the retrieval
Lookup(t) ==
    /\ pc[t] = "NotStarted"
    /\ LET query     == args[t][1]
           context   == args[t][2]
           cache_key == GetCacheKey(query, context)
           next      == IF CacheHas(retrieval_cache, cache_key) THEN "CacheHit"
                        ELSE IF RetrievalRaises(knowledge_index) THEN "Raised"
                        ELSE "Retrieved"
       IN  /\ pc' = [pc EXCEPT ![t] = next]
           /\ trace' = [trace EXCEPT ![t] = Append(@, next)]
           /\ result' = [result EXCEPT ![t] =
                            IF next = "CacheHit" THEN retrieval_cache[cache_key] ELSE @]
           /\ retrieved_info' = [retrieved_info EXCEPT ![t] =
                            IF next = "Retrieved"
                            THEN RetrieveRelevantInformation(knowledge_index, use_vector_db,
                                                             query, context)
                            ELSE @]
    /\ UNCHANGED <<retrieval_cache, config, store, args, posts, external, completion,
                   prior, returned, requests, pipeline, enhancement, server, scan>>

\* lines 57-78: generation or fallback, then the cache store
Generate(t) ==
    /\ pc[t] = "Retrieved"
    /\ \E outcome \in ExternalOutcomes, content \in Completions :
          LET query           == args[t][1]
              context         == args[t][2]
              cache_key       == GetCacheKey(query, context)
              enhanced_result == EnhancedResult(openai_api_key, query, retrieved_info[t],
                                                outcome, content)
              next            == IF openai_api_key # "" /\ outcome = "ok"
                                 THEN "Generated" ELSE "FallbackUsed"
          IN  /\ (outcome # "ok" => content = "")
              /\ (openai_api_key = "" => outcome = "ok" /\ content = "")
              /\ external' = [external EXCEPT ![t] =
                                 IF PostsMade(openai_api_key) = 0 THEN "none"
                                 ELSE IF outcome = "ok" THEN "ok" ELSE "failed"]
              /\ completion' = [completion EXCEPT ![t] =
                                 IF PostsMade(openai_api_key) > 0 /\ outcome = "ok"
                                 THEN Some(content) ELSE None]
              /\ pc' = [pc EXCEPT ![t] = next]
              /\ trace' = [trace EXCEPT ![t] = Append(@, next)]
              /\ posts' = [posts EXCEPT ![t] = @ + PostsMade(openai_api_key)]
              /\ result' = [result EXCEPT ![t] = enhanced_result]
              /\ retrieval_cache' = CachePut(retrieval_cache, cache_key, enhanced_result)
    /\ UNCHANGED <<config, store, args, retrieved_info, prior, returned, requests, pipeline,
                   enhancement, server, scan>>

\* lines 52 and 79, or the exception leaving the method
Return(t) ==
    /\ pc[t] \in Terminal
    /\ returned' = IF pc[t] # "Raised" /\ args[t] \notin DOMAIN returned
                   THEN [a \in DOMAIN returned \cup {args[t]} |->
                            IF a = args[t] THEN result[t] ELSE returned[a]]
                   ELSE returned
    /\ pc' = [pc EXCEPT ![t] = "Idle"]
    /\ args' = [args EXCEPT ![t] = NoArgs]
    /\ retrieved_info' = [retrieved_info EXCEPT ![t] = <<>>]
    /\ result' = [result EXCEPT ![t] = NoResult]
    /\ posts' = [posts EXCEPT ![t] = 0]
    /\ external' = [external EXCEPT ![t] = "none"]
    /\ completion' = [completion EXCEPT ![t] = None]
    /\ trace' = [trace EXCEPT ![t] = <<>>]
    /\ prior' = [prior EXCEPT ![t] = None]
    /\ UNCHANGED <<retrieval_cache, config, store, requests, pipeline, enhancement, server, scan>>

\* an add_to_knowledge_base that invalidates the result cache
AddToKnowledgeBaseClearsCache ==
    /\ \A t \in Threads : pc[t] = "Idle"
    /\ adds < MaxAdds
    /\ \E input \in AddInputs, t1 \in Times, t2 \in Times, save_outcome \in SaveOutcomes :
          LET text    == input[1]
              source  == input[2]
              item_id == ItemId(text, source, input[3], t1)
          IN  /\ clock <= t1 /\ t1 <= t2
              /\ clock' = t2
              /\ IF knowledge_index.kind = "dict"
                 THEN /\ knowledge_index' =
                            Dict(DictSet(knowledge_index.items, item_id,
                                         Obj(Str(text), Str(source), t2)))
                      /\ index_file' = SaveKnowledgeIndex(index_file, knowledge_index',
                                                          save_outcome)
                      /\ last_save' = save_outcome
                 ELSE UNCHANGED <<knowledge_index, index_file, last_save>>
              /\ added' = IF knowledge_index.kind = "dict"
                          THEN added \cup {item_id} ELSE added
    /\ adds' = adds + 1
    /\ retrieval_cache' = <<>>
    /\ UNCHANGED <<config, locals, returned, requests, pipeline, enhancement, server>>

\* add_to_knowledge_base(text, source, item_id); the item assignment raises
\* TypeError and nothing changes when the loaded index is not a dict
AddToKnowledgeBase ==
    /\ \A t \in Threads : pc[t] = "Idle"
    /\ adds < MaxAdds
    /\ \E input \in AddInputs, t1 \in Times, t2 \in Times, save_outcome \in SaveOutcomes :
          LET text    == input[1]
              source  == input[2]
              item_id == ItemId(text, source, input[3], t1)
          IN  /\ clock <= t1 /\ t1 <= t2
              /\ clock' = t2
              /\ IF knowledge_index.kind = "dict"
                 THEN /\ knowledge_index' =
                            Dict(DictSet(knowledge_index.items, item_id,
                                         Obj(Str(text), Str(source), t2)))
                      /\ index_file' = SaveKnowledgeIndex(index_file, knowledge_index',
                                                          save_outcome)
                      /\ last_save' = save_outcome
                 ELSE UNCHANGED <<knowledge_index, index_file, last_save>>
              /\ added' = IF knowledge_index.kind = "dict"
                          THEN added \cup {item_id} ELSE added
    /\ adds' = adds + 1
    /\ UNCHANGED <<retrieval_cache, config, locals, returned, requests, pipeline,
                   enhancement, server>>

Next ==
    \/ \E t \in Threads : Serial(t) /\ Request(t)
    \/ \E t \in Threads : Serial(t) /\ Lookup(t)
    \/ \E t \in Threads : Serial(t) /\ Generate(t)
    \/ \E t \in Threads : Serial(t) /\ Return(t)
    \/ AddToKnowledgeBase

Spec == Init /\ [][Next]_vars

\* the same processor constructed on any index file that is valid JSON
InitLoaded == InitOn(WellFormedFiles \cup MalformedFiles)

SpecLoaded == InitLoaded /\ [][Next]_vars

---------------------------------------------------------------------------
(* The same methods called from threads: nothing in RAGProcessor takes a   *)
(* lock, so the statements of two calls interleave; the loop over the      *)
(* index is one step per item, and add_to_knowledge_base is the item       *)
(* assignment followed by the save                                         *)

\* the dict iterator was created on a copy of the items, which no writer
\* can change
ChangedSizeOfCopy(index, used) == FALSE

\* next() of the iterator of knowledge_index.items(): the dict no longer has
\* the size it had when the iterator was created (RuntimeError: dictionary
\* changed size during iteration)
ChangedSize(index, used) == Len(index.items) # used

\* lines 49-55 up to the head of the loop over knowledge_index.items()
BeginRetrieval(t) ==
    /\ pc[t] = "NotStarted"
    /\ LET cache_key == GetCacheKey(args[t][1], args[t][2])
           next      == IF CacheHas(retrieval_cache, cache_key) THEN "CacheHit"
                        ELSE IF knowledge_index.kind # "dict" THEN "Raised"
                        ELSE "Scoring"
       IN  /\ pc' = [pc EXCEPT ![t] = next]
           /\ trace' = [trace EXCEPT ![t] = Append(@, next)]
           /\ result' = [result EXCEPT ![t] =
                            IF next = "CacheHit" THEN retrieval_cache[cache_key] ELSE @]
           /\ scan' = [scan EXCEPT ![t] =
                            IF next = "Scoring"
                            THEN [pos |-> 0, used |-> Len(knowledge_index.items)]
                            ELSE @]
    /\ retrieved_info' = [retrieved_info EXCEPT ![t] = <<>>]
    /\ UNCHANGED <<retrieval_cache, config, store, args, posts, external, completion,
                   prior, returned, requests, pipeline, enhancement, server>>

\* one pass of the loop of lines 123-138 on the item the iterator yields from
\* the index as it is now; when the iterator is exhausted, lines 141-144
ScoreStep(t) ==
    /\ pc[t] = "Scoring"
    /\ LET query_terms == QueryTerms(args[t][1], args[t][2])
           i           == scan[t].pos + 1
           raises      == \/ ChangedSize(knowledge_index, scan[t].used)
                          \/ /\ i <= Len(knowledge_index.items)
                             /\ \/ knowledge_index.items[i].data.kind # "obj"
                                \/ knowledge_index.items[i].data.text.kind = "other"
           exhausted   == i > scan[t].used
           next        == IF raises THEN "Raised"
                          ELSE IF exhausted THEN "Retrieved" ELSE "Scoring"
       IN  /\ pc' = [pc EXCEPT ![t] = next]
           /\ trace' = [trace EXCEPT ![t] = IF next = "Scoring" THEN @ ELSE Append(@, next)]
           /\ scan' = [scan EXCEPT ![t] =
                          IF next = "Scoring" THEN [@ EXCEPT !.pos = i] ELSE NoScan]
           /\ retrieved_info' = [retrieved_info EXCEPT ![t] =
                 IF next = "Raised" THEN <<>>
                 ELSE IF next = "Retrieved"
                 THEN Prefix(SortByRelevance(@), MaxResults)
                 ELSE LET score == ItemScore(knowledge_index.items[i].data, query_terms)
                      IN  IF Scored(score)
                          THEN Append(@, ResultItem(knowledge_index.items[i], score,
                                                    query_terms))
                          ELSE @]
    /\ UNCHANGED <<retrieval_cache, config, store, args, result, posts, external,
                   completion, prior, returned, requests, pipeline, enhancement, server>>

\* lines 305-313 of add_to_knowledge_base: the id and the item assignment
Insert(t) ==
    /\ pc[t] = "Idle"
    /\ adds < MaxInserts
    /\ knowledge_index.kind = "dict"
    /\ \E input \in AddInputs, t1 \in Times, t2 \in Times :
          LET text    == input[1]
              source  == input[2]
              item_id == ItemId(text, source, input[3], t1)
          IN  /\ clock <= t1 /\ t1 <= t2
              /\ clock' = t2
              /\ knowledge_index' =
                    Dict(DictSet(knowledge_index.items, item_id,
                                 Obj(Str(text), Str(source), t2)))
              /\ added' = added \cup {item_id}
    /\ adds' = adds + 1
    /\ pc' = [pc EXCEPT ![t] = "Inserted"]
    /\ UNCHANGED <<retrieval_cache, config, index_file, last_save, args, retrieved_info,
                   result, posts, external, completion, trace, prior, scan, returned,
                   requests, pipeline, enhancement, server>>

\* lines 316-318: the save of the index as it is now, and the return
Save(t) ==
    /\ pc[t] = "Inserted"
    /\ \E save_outcome \in SaveOutcomes :
          /\ index_file' = SaveKnowledgeIndex(index_file, knowledge_index, save_outcome)
          /\ last_save' = save_outcome
    /\ pc' = [pc EXCEPT ![t] = "Idle"]
    /\ UNCHANGED <<knowledge_index, clock, adds, added, retrieval_cache, config, args,
                   retrieved_info, result, posts, external, completion, trace, prior,
                   scan, returned, requests, pipeline, enhancement, server>>

\* RAGProcessor() as the web layer constructs it (use_vector_db defaults to
\* False), on the seed index
InitConcurrent == InitOn({JsonFile(SeedIndex)}) /\ ~use_vector_db

NextConcurrent ==
    \/ \E t \in Threads : Request(t)
    \/ \E t \in Threads : BeginRetrieval(t)
    \/ \E t \in Threads : ScoreStep(t)
    \/ \E t \in Threads : Generate(t)
    \/ \E t \in Threads : Return(t)
    \/ \E t \in Threads : adds < MaxAdds /\ Insert(t)
    \/ \E t \in Threads : Save(t)

SpecConcurrent == InitConcurrent /\ [][NextConcurrent]_vars

\* add_to_knowledge_base alone, called from threads
NextWriters ==
    \/ \E t \in Threads : Insert(t)
    \/ \E t \in Threads : Save(t)

SpecWriters == Init /\ [][NextWriters]_vars

TypeOK ==
    /\ pc \in [Threads -> {"Idle", "NotStarted", "Scoring", "Retrieved", "Inserted"}
                         \cup Terminal]
    /\ \A t \in Threads : scan[t].pos <= scan[t].used
    /\ requests \in 0..MaxRequests
    /\ adds \in 0..MaxInserts
    /\ last_save \in {"none"} \cup SaveOutcomes
    /\ clock \in Times
    /\ pipeline_pc \in {"Absent", "Ready", "Raised"}
    /\ restarts \in 0..MaxRestarts
    /\ level \in 1..3
    /\ complexity_level \in 1..3
    /\ cp_pc \in {"Idle", "Called", "Generating", "Done"}
    /\ (cp_result # None) = (cp_pc = "Done")
    /\ served \in 0..Max(MaxCalls, MaxServed)

---------------------------------------------------------------------------
(* RAGPipeline as a state machine: construction, add_knowledge, retrieve *)

\* add_knowledge calls in one run
MaxPipelineAdds == 1

\* items of a knowledge file left by an earlier run
SeedItems ==
    << [title |-> "Campfire", topic |-> "Fire safety", content |-> "Fire needs air",
        source |-> "Field Guide"],
       [title |-> "Weather", content |-> "Rain and fire", source |-> "Almanac",
        embedding |-> <<0, 0, 1, 1>>],
       [title |-> "Storm", topic |-> "weather", content |-> "Rain clouds",
        source |-> "Almanac"] >>

\* contents of data/knowledge when the pipeline is constructed: nothing, the
\* files of an earlier run, and files that cannot be read
KnowledgeDirs ==
    {<<>>,
     <<File("notes.json", SeedItems)>>,
     <<UnreadableFile("broken.json")>>,
     <<UnreadableFile("broken.json"), File("notes.json", SeedItems)>>}

\* directories holding a record without a title
UntitledDirs ==
    {<<File("notes.json", SeedItems),
       File("untitled.json", <<[content |-> "Rain clouds", source |-> "Almanac"]>>)>>}

RetrieveQueries == {"fire and rain", "Climate", "music", "Wind energy"}

RetrieveTopics == {"", "FIRE", "sport"}

TopKs == {-1, 0, 1, 3}

\* (title, content, topic, source) arguments of add_knowledge
AddKnowledgeInputs ==
    {<<"Drought", "No rain, much fire", "fire weather", "Notes">>,
     <<"Climate", "Wind energy", "", "">>}

\* the processor of the web layer is not part of a run of the pipeline alone
ProcessorAbsent ==
    /\ knowledge_index = Dict(<<>>)
    /\ index_file = NoFile
    /\ clock = 0
    /\ retrieval_cache = <<>>
    /\ openai_api_key = ""
    /\ use_vector_db = FALSE
    /\ pc = [t \in Threads |-> "Idle"]
    /\ args = [t \in Threads |-> NoArgs]
    /\ retrieved_info = [t \in Threads |-> <<>>]
    /\ result = [t \in Threads |-> NoResult]
    /\ posts = [t \in Threads |-> 0]
    /\ external = [t \in Threads |-> "none"]
    /\ completion = [t \in Threads |-> None]
    /\ trace = [t \in Threads |-> <<>>]
    /\ prior = [t \in Threads |-> None]
    /\ scan = [t \in Threads |-> NoScan]
    /\ returned = <<>>
    /\ requests = 0
    /\ adds = 0
    /\ added = {}
    /\ last_save = "none"

\* RAGPipeline.__init__ on the directory it finds
InitPipelineOn(dirs) ==
    /\ ProcessorAbsent
    /\ \E dir \in dirs, written \in BOOLEAN :
          LET loaded == LoadKnowledgeBase(dir, written)
          IN  /\ knowledge_base = loaded.items
              /\ knowledge_dir = loaded.dir
              /\ pipeline_pc = IF loaded.raised THEN "Raised" ELSE "Ready"
    /\ retrieve_args = NoRetrieve
    /\ retrieve_out = <<>>
    /\ pipeline_adds = 0
    /\ restarts = 0
    /\ EnhancementAbsent
    /\ ServerAbsent

InitPipeline == InitPipelineOn(KnowledgeDirs)

\* add_knowledge(title, content, topic, source)
AddKnowledge ==
    /\ pipeline_pc = "Ready"
    /\ pipeline_adds < MaxPipelineAdds
    /\ \E input \in AddKnowledgeInputs, written \in BOOLEAN :
          LET knowledge_item == KnowledgeItem(input[1], input[3], input[2], input[4])
              filename       == ItemFilename(input[3], Len(knowledge_base) + 1)
          IN  /\ knowledge_base' = Append(knowledge_base, knowledge_item)
              /\ knowledge_dir' = SaveKnowledgeItem(knowledge_dir, <<knowledge_item>>,
                                                    filename, written)
    /\ pipeline_adds' = pipeline_adds + 1
    /\ UNCHANGED <<processor, enhancement, server, retrieve_args, retrieve_out, pipeline_pc,
                   restarts>>

\* a caller runs retrieve(query, topic, top_k)
RetrieveCall ==
    /\ pipeline_pc = "Ready"
    /\ \E query \in RetrieveQueries, topic \in RetrieveTopics, top_k \in TopKs :
          /\ retrieve_args' = <<query, topic, top_k>>
          /\ retrieve_out' = Retrieve(knowledge_base, query, topic, top_k)
    /\ UNCHANGED <<processor, enhancement, server, knowledge_base, knowledge_dir,
                   pipeline_adds, pipeline_pc, restarts>>

\* the process ends and a new one constructs the pipeline on the directory
\* the old one left: get_rag_pipeline() runs RAGPipeline.__init__ again
Restart ==
    /\ restarts < MaxRestarts
    /\ \E written \in BOOLEAN :
          LET loaded == LoadKnowledgeBase(knowledge_dir, written)
          IN  /\ knowledge_base' = loaded.items
              /\ knowledge_dir' = loaded.dir
              /\ pipeline_pc' = IF loaded.raised THEN "Raised" ELSE "Ready"
    /\ retrieve_args' = NoRetrieve
    /\ retrieve_out' = <<>>
    /\ restarts' = restarts + 1
    /\ UNCHANGED <<processor, enhancement, server, pipeline_adds>>

PipelineNext == AddKnowledge \/ RetrieveCall \/ Restart

SpecPipeline == InitPipeline /\ [][PipelineNext]_vars

\* counterpoints as the engines make them, one of them enhanced before
CounterpointLists ==
    {<<>>,
     <<[text |-> "Fire spreads fast", strategy |-> "evidence_challenge",
        attack_type |-> "evidential"]>>,
     <<[text |-> "Music is loud", strategy |-> "false_dichotomy",
        attack_type |-> "logical"],
       [text |-> "Rain stops fire", strategy |-> "generic_challenge",
        attack_type |-> "general", source |-> "Debater"],
       [text |-> "Climate, energy and fire", strategy |-> "alternative_perspective",
        attack_type |-> "perspectival", source |-> "Debater",
        knowledge_enhanced |-> TRUE]>>}

EnhanceTopics == {"", "FIRE", "sport"}

\* a caller runs enhance_counterpoints(counterpoints, topic)
EnhanceCall ==
    /\ pipeline_pc = "Ready"
    /\ \E counterpoints_in \in CounterpointLists, topic \in EnhanceTopics :
          /\ enhance_args' = <<counterpoints_in, topic>>
          /\ enhance_out' = EnhanceCounterpoints(knowledge_base, counterpoints_in, topic)
    /\ UNCHANGED <<processor, server, pipeline>>

EnhanceNext == AddKnowledge \/ EnhanceCall \/ Restart

SpecEnhance == InitPipeline /\ [][EnhanceNext]_vars

\* the same pipeline constructed on any directory of valid JSON files
InitPipelineLoaded == InitPipelineOn(KnowledgeDirs \cup UntitledDirs)

SpecPipelineLoaded == InitPipelineLoaded /\ [][PipelineNext]_vars

---------------------------------------------------------------------------
(* CounterpointEngine.generate_counterpoints, step by step *)

\* a caller enters generate_counterpoints(argument, topic, count); line 72
\* takes the argument apart
CallGenerateCounterpoints ==
    /\ cp_pc = "Idle"
    /\ served < MaxCalls
    /\ \E argument \in CounterpointArguments, topic \in CounterpointTopics,
          count \in Counts :
          /\ cp_args' = <<argument, topic, count>>
          /\ components' = AnalyzeArgument(argument, topic)
    /\ cp_pc' = "Called"
    /\ UNCHANGED <<processor, pipeline, enhancement, level, strategies, counterpoints,
                   cp_result, cot, web>>

\* lines 75-78: the strategies the first loop will go through,
\* strategies[:count] of a shuffled selection
SelectStep ==
    /\ cp_pc = "Called"
    /\ \E available \in {AvailableStrategies(components)} :
          \E shuffled \in Shuffles(available) :
             strategies' = Prefix(SelectStrategies(shuffled, level), cp_args[3])
    /\ counterpoints' = <<>>
    /\ cp_pc' = "Generating"
    /\ UNCHANGED <<processor, pipeline, enhancement, level, cp_args, components,
                   cp_result, cot, web>>

\* lines 81-84: one pass of the loop over the strategies
StrategyStep ==
    /\ cp_pc = "Generating"
    /\ strategies # <<>>
    /\ \E template \in 1..Len(StrategyTemplates[Head(strategies)]) :
          counterpoints' = Append(counterpoints,
                                  GenerateCounterpoint(Head(strategies), template))
    /\ strategies' = Tail(strategies)
    /\ UNCHANGED <<processor, pipeline, enhancement, level, cp_pc, cp_args, components,
                   cp_result, cot, web>>

\* lines 87-90: one pass of the loop that fills up to count
FillStep ==
    /\ cp_pc = "Generating"
    /\ strategies = <<>>
    /\ Len(counterpoints) < cp_args[3]
    /\ \E template \in 1..Len(GenericTemplates(components.claim)) :
          counterpoints' = Append(counterpoints,
                                  GenerateGenericCounterpoint(components, template))
    /\ UNCHANGED <<processor, pipeline, enhancement, level, cp_pc, cp_args, components,
                   strategies, cp_result, cot, web>>

\* lines 92-103: both loops are over; the result is put together
Finish ==
    /\ cp_pc = "Generating"
    /\ strategies = <<>>
    /\ ~(Len(counterpoints) < cp_args[3])
    /\ cp_result' = Some(CounterpointsResult(components, counterpoints, level))
    /\ cp_pc' = "Done"
    /\ UNCHANGED <<processor, pipeline, enhancement, level, cp_args, components,
                   strategies, counterpoints, cot, web>>

\* the caller has the result
ReturnCounterpoints ==
    /\ cp_pc = "Done"
    /\ cp_pc' = "Idle"
    /\ cp_args' = NoCall
    /\ components' = NoComponents
    /\ counterpoints' = <<>>
    /\ cp_result' = None
    /\ served' = served + 1
    /\ UNCHANGED <<processor, pipeline, enhancement, level, strategies, cot, web_request,
                   web_response>>

\* CounterpointEngine(level) for any level, called directly
InitCounterpoints ==
    /\ ProcessorAbsent
    /\ PipelineAbsent
    /\ EnhancementAbsent
    /\ \E l \in EngineLevels : ServerOn(l, 2)

CounterpointsNext ==
    \/ CallGenerateCounterpoints
    \/ SelectStep
    \/ StrategyStep
    \/ FillStep
    \/ Finish
    \/ ReturnCounterpoints

\* the steps of a call that has been entered
CounterpointsRun == SelectStep \/ StrategyStep \/ FillStep \/ Finish

\* the thread that called generate_counterpoints keeps running
CounterpointsFairness == WF_vars(CounterpointsRun)

SpecCounterpoints == InitCounterpoints /\ [][CounterpointsNext]_vars /\ CounterpointsFairness

---------------------------------------------------------------------------
(* The web layer (src/api/fastapi_app.py): two endpoints and the singletons
   they share.  A handler is a coroutine that never awaits, so it runs from
   the request to the response before the next request is looked at. *)

\* retrieve_and_generate from call to return: the result, or the exception,
\* and the result cache after the call
RetrieveAndGenerate(cache, index, api_key, vector_db, query, context, outcome, content) ==
    LET cache_key == GetCacheKey(query, context)
    IN  IF CacheHas(cache, cache_key)
        THEN [raised |-> FALSE, result |-> cache[cache_key], cache |-> cache]
        ELSE IF RetrievalRaises(index)
        THEN [raised |-> TRUE, result |-> NoResult, cache |-> cache]
        ELSE LET enhanced_result ==
                    EnhancedResult(api_key, query,
                                   RetrieveRelevantInformation(index, vector_db, query,
                                                               context),
                                   outcome, content)
             IN  [raised |-> FALSE, result |-> enhanced_result,
                  cache  |-> CachePut(cache, cache_key, enhanced_result)]

\* no handler is running
ServerIdle == cp_pc = "Idle" /\ \A t \in Threads : pc[t] = "Idle"

\* `if request.context:`
HasContext(request) == request.context # None /\ request.context # Some("")

\* POST /reasoning/analyze-argument, lines 144-170
PostAnalyzeArgument ==
    /\ ServerIdle
    /\ served < MaxServed
    /\ \E request \in ArgumentRequests, ai_outcome \in AiOutcomes,
          rag_outcome \in ExternalOutcomes, rag_content \in Completions :
          LET cot_level == IF request.complexity_level # 1
                           THEN request.complexity_level ELSE complexity_level
              rag       == RetrieveAndGenerate(retrieval_cache, knowledge_index,
                                               openai_api_key, use_vector_db,
                                               request.text, request.context,
                                               rag_outcome, rag_content)
              processed == ProcessArgument(process_cache, cot_level, openai_api_key,
                                           request.text, ai_outcome)
              with_rag  == With(With(processed.result, "retrieved_information",
                                     rag.result.retrieved_information),
                                "enhanced_response", rag.result.response)
          IN  /\ (rag_outcome # "ok" => rag_content = "")
              /\ (openai_api_key = "" \/ ~HasContext(request) =>
                     rag_outcome = "ok" /\ rag_content = "")
              /\ (openai_api_key = "" => ai_outcome = "ok")
              /\ web_request' = [endpoint |-> "analyze-argument",
                                 level    |-> request.complexity_level,
                                 text     |-> request.text,
                                 context  |-> request.context]
              /\ complexity_level' = cot_level
              /\ IF HasContext(request) /\ rag.raised
                 THEN /\ web_response' = [status |-> 500, body |-> <<>>]
                      /\ UNCHANGED <<retrieval_cache, process_cache>>
                 ELSE IF HasContext(request)
                 THEN /\ retrieval_cache' = rag.cache
                      /\ process_cache' = With(processed.cache, processed.cache_key,
                                               with_rag)
                      /\ web_response' = [status |-> 200, body |-> with_rag]
                 ELSE /\ process_cache' = processed.cache
                      /\ web_response' = [status |-> 200, body |-> processed.result]
                      /\ UNCHANGED retrieval_cache
    /\ served' = served + 1
    /\ UNCHANGED <<config, store, locals, returned, requests, pipeline, enhancement,
                   engine>>

\* POST /debate/generate-counterpoints, lines 201-209: the level is set and
\* generate_counterpoints(argument, topic) is entered
PostGenerateCounterpoints ==
    /\ ServerIdle
    /\ served < MaxServed
    /\ \E request \in CounterpointRequests :
          /\ web_request' = [endpoint |-> "generate-counterpoints",
                             level    |-> request.level,
                             text     |-> request.argument,
                             context  |-> Some(request.topic)]
          /\ level' = IF request.level # 1 THEN ClampLevel(request.level) ELSE level
          /\ cp_args' = <<request.argument, request.topic, DefaultCount>>
          /\ components' = AnalyzeArgument(request.argument, request.topic)
    /\ cp_pc' = "Called"
    /\ web_response' = <<>>
    /\ UNCHANGED <<processor, pipeline, enhancement, strategies, counterpoints, cp_result,
                   cot, served>>

\* line 210: the handler returns what generate_counterpoints returned
RespondCounterpoints ==
    /\ cp_pc = "Done"
    /\ web_response' = [status |-> 200, body |-> cp_result[1]]
    /\ cp_pc' = "Idle"
    /\ cp_args' = NoCall
    /\ components' = NoComponents
    /\ counterpoints' = <<>>
    /\ cp_result' = None
    /\ served' = served + 1
    /\ UNCHANGED <<processor, pipeline, enhancement, level, strategies, cot, web_request>>

\* the module as imported: RAGProcessor() on the index file of an earlier
\* run, and the two engines at level 2
InitWeb == InitOn({JsonFile(SeedIndex)}) /\ ~use_vector_db

\* The loop of lines 87-90 (FillStep) takes no step here: the engine starts at
\* level 2 and the handler never sets it to 1, so _select_strategies returns
\* three strategies, as many as the default count, and Finish is enabled as
\* soon as the first loop is over.
WebNext ==
    \/ PostAnalyzeArgument
    \/ PostGenerateCounterpoints
    \/ SelectStep
    \/ StrategyStep
    \/ Finish
    \/ RespondCounterpoints

SpecWeb == InitWeb /\ [][WebNext]_vars

---------------------------------------------------------------------------
(* Properties of RAGProcessor.retrieve_and_generate *)

\* the request of thread t has retrieved (it missed the cache and did not raise)
HasRetrieved(t) == pc[t] \in {"Retrieved", "Generated", "FallbackUsed"}

\* the request of thread t has built its enhanced_result on a cache miss
HasAnswered(t) == pc[t] \in {"Generated", "FallbackUsed"}

\* the qualifying terms of a query and its context, from their description:
\* lowercased whitespace-separated tokens longer than 3 characters that are
\* not stop words
QualifyingTerms(query, context) ==
    LET tokens == Range(Split(query))
                  \cup (IF context = None THEN {} ELSE Range(Split(context[1])))
    IN  {w \in {Lower(x) : x \in tokens} : Len(w) > 3 /\ w \notin stop_words}

\* the terms of a set that occur in the lowercased text of item i of the index
TermsIn(index, i, terms) ==
    LET text    == IF index.items[i].data.text.kind = "str"
                   THEN index.items[i].data.text.val ELSE ""
        lowered == Lower(text)
    IN  IF terms = {} THEN {} ELSE {w \in terms : Contains(lowered, w)}

\* the positions of the index whose item contains at least one qualifying term
Matching(index, query, context) ==
    LET terms == QualifyingTerms(query, context)
    IN  {i \in 1..Len(index.items) : TermsIn(index, i, terms) # {}}

\* the position of the item with that id in the index
PositionOf(index, id) == CHOOSE i \in 1..Len(index.items) : index.items[i].id = id

\* C1: a call of retrieve_and_generate with the arguments of an earlier call
\* that returned is a cache hit: it goes from NotStarted to CacheHit only,
\* returns exactly what that call returned and makes no POST, whatever was
\* added to the knowledge base in between.
C1_RepeatedCallIsCacheHit ==
    \A t \in Threads :
        prior[t] # None =>
            /\ pc[t] \in {"NotStarted", "CacheHit"}
            /\ posts[t] = 0
            /\ (pc[t] = "CacheHit" => result[t] = prior[t][1])

\* C1 witness: a repeated call has returned the first result although the
\* index, changed by an add in between, now has another answer to the query
C1_StaleHitReached ==
    \E t \in Threads :
        /\ pc[t] = "CacheHit"
        /\ prior[t] # None
        /\ adds > 0
        /\ \E i \in Matching(knowledge_index, args[t][1], args[t][2]) :
              \A j \in 1..Len(result[t].retrieved_information) :
                  result[t].retrieved_information[j].id # knowledge_index.items[i].id
        /\ Len(result[t].retrieved_information) < MaxResults

\* the three paths of a request
Paths ==
    {<<"NotStarted", "CacheHit">>,
     <<"NotStarted", "Retrieved", "Generated">>,
     <<"NotStarted", "Retrieved", "FallbackUsed">>}

IsPrefix(p, q) == Len(p) <= Len(q) /\ SubSeq(q, 1, Len(p)) = p

C3_NeverRaises ==
    \A t \in Threads :
        /\ pc[t] # "Raised"
        /\ pc[t] \in Terminal =>
              DOMAIN result[t] = {"query", "retrieved_information", "response", "sources"}

FallbackMarkers == {NotConfiguredResponse, NotGeneratedResponse}

\* the query of thread t has qualifying terms and none occurs in any item
MatchesNothing(t) ==
    /\ pc[t] # "Idle"
    /\ knowledge_index.kind = "dict"
    /\ Matching(knowledge_index, args[t][1], args[t][2]) = {}

C5_NoCredentialNoCall ==
    openai_api_key = "" =>
        \A t \in Threads :
            /\ posts[t] = 0
            /\ external[t] = "none"
            /\ HasAnswered(t) =>
                  /\ pc[t] = "FallbackUsed"
                  /\ result[t].response = NotConfiguredResponse
                  /\ result[t].retrieved_information = retrieved_info[t]
                  /\ result[t].retrieved_information =
                        RetrieveFromSimpleIndex(knowledge_index, args[t][1], args[t][2])

\* C5 witness: a request without a credential answered with retrieved items
C5_NotConfiguredReached ==
    \E t \in Threads :
        /\ openai_api_key = ""
        /\ pc[t] = "FallbackUsed"
        /\ Len(result[t].retrieved_information) >= 2

\* C6: with a credential, a request whose POST failed answers with the
\* not-generated marker after that one attempt, and its retrieved_information
\* is the output of retrieval, item for item in the same order.
C6_FailedCallGivesRetrieved ==
    \A t \in Threads :
        openai_api_key # "" /\ external[t] = "failed" =>
            /\ pc[t] = "FallbackUsed"
            /\ posts[t] = 1
            /\ result[t].response = NotGeneratedResponse
            /\ result[t].query = args[t][1]
            /\ result[t].retrieved_information = retrieved_info[t]
            /\ result[t].retrieved_information =
                  RetrieveFromSimpleIndex(knowledge_index, args[t][1], args[t][2])

\* C6 witness: a failed POST behind an answer that carries three retrieved items
C6_FailedCallReached ==
    \E t \in Threads :
        /\ openai_api_key # ""
        /\ external[t] = "failed"
        /\ Len(result[t].retrieved_information) = MaxResults
        /\ result[t].retrieved_information[1].relevance_score
              # result[t].retrieved_information[3].relevance_score

---------------------------------------------------------------------------
(* Properties of the two retrieval strategies *)

\* the number of qualifying terms that occur in item i of the index
Matched(index, i, query, context) ==
    Cardinality(TermsIn(index, i, QualifyingTerms(query, context)))

\* C7: right after retrieval, with M the number of qualifying terms of query
\* and context, every retrieved item has relevance_score N / M, where N >= 1
\* is the number of those terms its lowercased text contains, so the score
\* lies in (0, 1]; with M = 0 nothing is retrieved.
C7_ScoreIsMatchedOverQualifying ==
    \A t \in Threads :
        pc[t] = "Retrieved" =>
            LET query   == args[t][1]
                context == args[t][2]
                M       == Cardinality(QualifyingTerms(query, context))
                R       == retrieved_info[t]
            IN  /\ M = 0 => R = <<>>
                /\ \A j \in 1..Len(R) :
                      LET N == Matched(knowledge_index,
                                       PositionOf(knowledge_index, R[j].id), query, context)
                      IN  /\ 1 <= N /\ N <= M
                          /\ R[j].relevance_score.num * M = N * R[j].relevance_score.den
                          /\ 0 < R[j].relevance_score.num
                          /\ R[j].relevance_score.num <= R[j].relevance_score.den

\* C7 witness: a retrieval with two qualifying terms returned an item that
\* contains both (uppercase in its text) and an item that contains one
C7_FullAndHalfScore ==
    \E t \in Threads :
        /\ pc[t] = "Retrieved"
        /\ Cardinality(QualifyingTerms(args[t][1], args[t][2])) = 2
        /\ \E j, k \in 1..Len(retrieved_info[t]) :
              /\ retrieved_info[t][j].relevance_score = [num |-> 1, den |-> 1]
              /\ retrieved_info[t][j].text = "Smoke and FIRE"
              /\ retrieved_info[t][k].relevance_score = [num |-> 1, den |-> 2]

\* indexes the keyword strategy is run on: fewer and more than three matches
KeywordIndexes ==
    {SeedIndex,
     Dict(DictSet(SeedIndex.items, "k5", Obj(Str("Wildfire smoke"), Str("Notes"), 0)))}

\* the keyword strategy returns at most three items, each with a positive
\* relevance_score
KeywordAtMostThree ==
    \A index \in KeywordIndexes, input \in RequestInputs :
        LET R == RetrieveRelevantInformation(index, FALSE, input[1], input[2])
        IN  /\ Len(R) <= 3
            /\ \A j \in 1..Len(R) :
                  /\ "relevance_score" \in DOMAIN R[j]
                  /\ R[j].relevance_score.num > 0

\* C8 as stated: the keyword strategy returns at most 3 items, none with
\* score 0, and retrieve returns at most top_k items, for every top_k; each
\* returned item has a relevance_score.
C8_AtMostTopK ==
    /\ KeywordAtMostThree
    /\ retrieve_args # NoRetrieve =>
          /\ Len(retrieve_out) <= retrieve_args[3]
          /\ \A i \in 1..Len(retrieve_out) : "relevance_score" \in DOMAIN retrieve_out[i]

\* C8 amended: the same, for every top_k >= 0.
C8_AtMostTopKNotNegative ==
    /\ KeywordAtMostThree
    /\ retrieve_args # NoRetrieve =>
          /\ retrieve_args[3] >= 0 => Len(retrieve_out) <= retrieve_args[3]
          /\ \A i \in 1..Len(retrieve_out) : "relevance_score" \in DOMAIN retrieve_out[i]

\* C8 witness: retrieve with top_k = 1 had several candidates and returned
\* one, and the keyword strategy has an index with more than three matches
C8_TruncatedToTopK ==
    /\ retrieve_args[3] = 1
    /\ Len(Candidates(knowledge_base, retrieve_args[2])) >= 2
    /\ Len(retrieve_out) = 1
    /\ \E index \in KeywordIndexes, input \in RequestInputs :
          Cardinality(Matching(index, input[1], input[2])) > 3

\* C9: right after retrieval the retrieved items are in non-increasing order
\* of relevance_score, items with equal score are in index order, and they
\* are the first three of the matching items in that ordering.
C9_StableDescendingTopThree ==
    \A t \in Threads :
        pc[t] = "Retrieved" =>
            LET query    == args[t][1]
                context  == args[t][2]
                R        == retrieved_info[t]
                matching == Matching(knowledge_index, query, context)
                N(i)     == Matched(knowledge_index, i, query, context)
                pos(j)   == PositionOf(knowledge_index, R[j].id)
                Before(i1, i2) == N(i1) > N(i2) \/ (N(i1) = N(i2) /\ i1 < i2)
            IN  /\ Len(R) = Min(3, Cardinality(matching))
                /\ \A j \in 1..Len(R) : pos(j) \in matching
                /\ \A j, k \in 1..Len(R) :
                      j < k => /\ Before(pos(j), pos(k))
                               /\ ~Less(R[j].relevance_score, R[k].relevance_score)
                /\ \A o \in matching \ {pos(j) : j \in 1..Len(R)} :
                      \A j \in 1..Len(R) : Before(pos(j), o)

\* C9 witness: four items match; the three with the full score are returned
\* in index order and the one left out stands before the last of them in
\* the index
C9_TieAndOmission ==
    \E t \in Threads :
        /\ pc[t] = "Retrieved"
        /\ Cardinality(Matching(knowledge_index, args[t][1], args[t][2])) = 4
        /\ Len(retrieved_info[t]) = 3
        /\ retrieved_info[t][1].relevance_score = retrieved_info[t][3].relevance_score
        /\ \E o \in Matching(knowledge_index, args[t][1], args[t][2]) :
              /\ o < PositionOf(knowledge_index, retrieved_info[t][3].id)
              /\ \A j \in 1..3 : knowledge_index.items[o].id # retrieved_info[t][j].id

\* C10: no request shares the string its cache key is hashed from with an
\* earlier call of other arguments, and a cache hit returns a result that
\* was computed for the query of the request.
C10_NoSharedCacheKey ==
    \A t \in Threads :
        pc[t] # "Idle" =>
            /\ \A a \in DOMAIN returned :
                  a # args[t] =>
                      CacheKeyInput(a[1], a[2]) # CacheKeyInput(args[t][1], args[t][2])
            /\ pc[t] = "CacheHit" => result[t].query = args[t][1]

---------------------------------------------------------------------------
(* Properties of the knowledge stores *)

\* a step of add_to_knowledge_base that returned an id and wrote the file
AddStep ==
    /\ adds' = adds + 1
    /\ knowledge_index.kind = "dict"
    /\ index_file' = JsonFile(knowledge_index')

\* a step of add_knowledge that returned True and wrote the file
AddKnowledgeStep ==
    /\ pipeline_adds' = pipeline_adds + 1
    /\ knowledge_dir' # knowledge_dir

\* the index a new process loads from the file
Reloaded(file) == LoadKnowledgeIndex(file, 0, "written").index

\* C11: every add that succeeds leaves one record more in the store than it
\* held before, in memory and in what a reload from disk yields, for
\* add_to_knowledge_base with or without an id and for add_knowledge.
C11_AddIncreasesByOne ==
    [][/\ AddStep =>
            /\ Len(knowledge_index'.items) = Len(knowledge_index.items) + 1
            /\ Len(Reloaded(index_file').items) = Len(knowledge_index.items) + 1
       /\ AddKnowledgeStep =>
            /\ Len(knowledge_base') = Len(knowledge_base) + 1
            /\ Len(LoadFiles(knowledge_dir', 1)) = Len(LoadFiles(knowledge_dir, 1)) + 1]_vars

\* C13: ids are unique in the index, and after add_to_knowledge_base every
\* id that was stored before the call still has the text and the source it
\* had, also when the caller passes an item_id.
C13_AddKeepsStoredItems ==
    [][adds' = adds + 1 /\ knowledge_index.kind = "dict" =>
          /\ \A i, j \in 1..Len(knowledge_index'.items) :
                knowledge_index'.items[i].id = knowledge_index'.items[j].id => i = j
          /\ \A i \in 1..Len(knowledge_index.items) :
                \E j \in 1..Len(knowledge_index'.items) :
                    /\ knowledge_index'.items[j].id = knowledge_index.items[i].id
                    /\ knowledge_index'.items[j].data.text = knowledge_index.items[i].data.text
                    /\ knowledge_index'.items[j].data.source
                          = knowledge_index.items[i].data.source]_vars

\* the text of the stored item with that id
TextOf(index, id) ==
    LET text == index.items[PositionOf(index, id)].data.text
    IN  IF text.kind = "str" THEN text.val ELSE ""

\* the qualifying words of the item with that id that the query of request t
\* (with its context) contains
SharedWords(t, id) ==
    QualifyingTerms(TextOf(knowledge_index, id), None)
        \cap QualifyingTerms(args[t][1], args[t][2])

\* the item with that id is among the items request t retrieved
Retrieves(t, id) == \E j \in 1..Len(retrieved_info[t]) : retrieved_info[t][j].id = id

\* the positions of the index that stand before position i in the order of
\* descending score for the query of request t, ties in index order
Ahead(t, i) ==
    LET N(o) == Matched(knowledge_index, o, args[t][1], args[t][2])
    IN  {o \in 1..Len(knowledge_index.items) :
            N(o) > N(i) \/ (N(o) = N(i) /\ o < i)}

\* C12 as stated: a retrieval that missed the cache, for a query containing
\* a qualifying word of the text of an item add_to_knowledge_base stored,
\* returned that item, whatever else the index holds.
C12_AddedItemRetrieved ==
    \A t \in Threads :
        pc[t] = "Retrieved" =>
            \A id \in added : SharedWords(t, id) # {} => Retrieves(t, id)

\* C12 amended: such a retrieval scores the added item above 0 and returns
\* it exactly when fewer than three items of the index stand before it in
\* the order of descending score with ties in index order.
C12_AddedItemRetrievedUnlessCrowdedOut ==
    \A t \in Threads :
        pc[t] = "Retrieved" =>
            \A id \in added :
                SharedWords(t, id) # {} =>
                    LET i == PositionOf(knowledge_index, id)
                    IN  /\ Matched(knowledge_index, i, args[t][1], args[t][2]) >= 1
                        /\ Retrieves(t, id) <=> Cardinality(Ahead(t, i)) < MaxResults

\* C12 witness: the index held four items before the add, and a query with a
\* word of the added text returned the added item along with two of them
C12_AddedItemReturned ==
    \E t \in Threads, id \in added :
        /\ pc[t] = "Retrieved"
        /\ SharedWords(t, id) # {}
        /\ Len(knowledge_index.items) > 4
        /\ Len(retrieved_info[t]) = 3
        /\ Retrieves(t, id)

\* the item without its embedding: what a knowledge file says of a record
\* whether or not an embedding was stored with it
Record(item) == WithoutEmbedding(item)

\* C14: loading the knowledge store never aborts.  The constructor of the
\* pipeline does not raise on any directory, whatever files cannot be read
\* and whatever optional field (title, topic, embedding) a record lacks, and
\* every record of the files that can be read is in memory afterwards.  (The
\* index loader of RAGProcessor has no outcome but an index.)
C14_LoadNeverAborts ==
    /\ pipeline_pc # "Raised"
    /\ pipeline_pc = "Ready" =>
          \A i \in 1..Len(LoadFiles(knowledge_dir, 1)) :
              \E j \in 1..Len(knowledge_base) :
                  Record(knowledge_base[j]) = Record(LoadFiles(knowledge_dir, 1)[i])

\* C15: after construction the knowledge store in memory is not empty: the
\* index of RAGProcessor and the knowledge base of RAGPipeline hold the
\* loaded items or, when loading yielded none, the built-in default set.
C15_NonEmptyAfterConstruction ==
    /\ (pipeline_pc = "Absent" /\ knowledge_index.kind = "dict") =>
          knowledge_index.items # <<>>
    /\ pipeline_pc = "Ready" => knowledge_base # <<>>

\* C16: when the pipeline is constructed again on the store an earlier
\* construction loaded, every item in memory has an embedding and the load
\* computes none: each item of the store already has the embedding that was
\* computed for it.
C16_EmbeddingComputedOnce ==
    [][restarts' = restarts + 1 =>
          /\ \A j \in 1..Len(knowledge_base') : "embedding" \in DOMAIN knowledge_base'[j]
          /\ Unembedded(LoadFiles(knowledge_dir, 1)) = {}]_vars

---------------------------------------------------------------------------
(* Properties of the results of retrieve_and_generate *)

ClimateQuery == "Is climate change caused by humans?"

\* request t asks ClimateQuery without a credential, and the index holds the
\* 'Climate Change Evidence' text with source 'Scientific consensus' as the
\* only item that matches the query
EndToEndCase(t) ==
    /\ openai_api_key = ""
    /\ args[t] = <<ClimateQuery, None>>
    /\ \E i \in 1..Len(knowledge_index.items) :
          /\ knowledge_index.items[i].data.text = Str(ClimateChangeContent)
          /\ knowledge_index.items[i].data.source = Str("Scientific consensus")
          /\ Matching(knowledge_index, ClimateQuery, None) = {i}

\* the result of request t is that item alone with a positive score, the
\* not-configured marker and the one source
ClimateAnswer(t) ==
    LET R == result[t].retrieved_information
    IN  /\ Len(R) = 1
        /\ R[1].text = ClimateChangeContent
        /\ R[1].source = "Scientific consensus"
        /\ R[1].relevance_score.num > 0
        /\ result[t].response = NotConfiguredResponse
        /\ result[t].sources = <<"Scientific consensus">>

\* C17 as stated: in that case every call that has its result, on a cache
\* hit as on a miss, returns the item with a score above 0, the fallback
\* marker as response and ['Scientific consensus'] as sources.
C17_EndToEndClimate ==
    \A t \in Threads :
        (pc[t] \in {"CacheHit", "Generated", "FallbackUsed"} /\ EndToEndCase(t))
            => ClimateAnswer(t)

\* C17 amended: in that case every call that missed the cache returns the
\* item with a score above 0, the fallback marker and the one source.
C17_EndToEndClimateOnCacheMiss ==
    \A t \in Threads :
        (HasAnswered(t) /\ EndToEndCase(t)) => ClimateAnswer(t)

\* C17 witness: such a call answered on the fallback path with the item at
\* score 1/4 ("climate" of the four qualifying terms is in the text)
C17_ClimateItemReturned ==
    \E t \in Threads :
        /\ pc[t] = "FallbackUsed"
        /\ EndToEndCase(t)
        /\ ClimateAnswer(t)
        /\ result[t].retrieved_information[1].relevance_score = [num |-> 1, den |-> 4]

\* request t has the result it returns
HasResult(t) == pc[t] \in {"CacheHit", "Generated", "FallbackUsed"}

\* C18: the response of every result retrieve_and_generate returns is a
\* string that is not empty: on the generated path whatever text the 2xx
\* body holds, on both fallback paths and on a cache hit.
C18_ResponseNeverEmpty ==
    \A t \in Threads : HasResult(t) => result[t].response # ""

\* the source the index stores for the item with that id, "unknown" if none
SourceOf(index, id) ==
    LET source == index.items[PositionOf(index, id)].data.source
    IN  IF source.kind = "absent" THEN "unknown" ELSE source.val

\* C19: in every result retrieve_and_generate returns, on every path,
\* sources is as long as retrieved_information and sources[i] is the source
\* of retrieved_information[i] (on a cache miss the source the index stores
\* for that item); on the generated path the response is the content of the
\* 2xx body, character for character.
C19_SourcesParallelResponseVerbatim ==
    \A t \in Threads :
        HasResult(t) =>
            LET R == result[t].retrieved_information
            IN  /\ Len(result[t].sources) = Len(R)
                /\ \A i \in 1..Len(R) :
                      /\ result[t].sources[i] = R[i].source
                      /\ HasAnswered(t) =>
                            result[t].sources[i] = SourceOf(knowledge_index, R[i].id)
                /\ pc[t] = "Generated" =>
                      /\ completion[t] # None
                      /\ result[t].response = completion[t][1]

\* C19 witness: a generated result with three items, one of them stored
\* without a source, whose response is the text the endpoint sent
C19_GeneratedWithSources ==
    \E t \in Threads :
        /\ pc[t] = "Generated"
        /\ Len(result[t].sources) = 3
        /\ \E i \in 1..3 : result[t].sources[i] = "unknown"
        /\ \E i \in 1..3 : result[t].sources[i] = "Field Guide"
        /\ completion[t] # None
        /\ completion[t][1] # ""
        /\ result[t].response = completion[t][1]

---------------------------------------------------------------------------
(* Properties of RAGPipeline.retrieve *)

\* C20: in the result of RAGPipeline.retrieve, an item whose content is the
\* text of the query has similarity 1.0 and stands before every item of
\* similarity 0.
C20_IdenticalContentScoresOne ==
    retrieve_args # NoRetrieve =>
        \A i \in 1..Len(retrieve_out) :
            retrieve_out[i]["content"] = retrieve_args[1] =>
                /\ retrieve_out[i]["relevance_score"] = Quotient(1, 1)
                /\ \A k \in 1..Len(retrieve_out) :
                      retrieve_out[k]["relevance_score"].num = 0 => i < k


---------------------------------------------------------------------------
(* Properties of the processor under concurrent calls *)

\* two requests hold the same (query, context)
SameArgs(t, u) == t # u /\ args[t] = args[u] /\ args[t] # NoArgs

\* C21 (as stated): an entry of the result cache is never removed and never
\* replaced by a different value; requests for the same (query, context), also
\* when they overlap, return the same result and together make at most one
\* external call
C21_EntryStableOneCall ==
    /\ [][\A k \in DOMAIN retrieval_cache :
             k \in DOMAIN retrieval_cache' /\ retrieval_cache'[k] = retrieval_cache[k]]_vars
    /\ [](\A t \in Threads :
             /\ (args[t] \in DOMAIN returned /\ pc[t] \in Terminal \ {"Raised"}
                   => result[t] = returned[args[t]])
             /\ (args[t] \in DOMAIN returned => posts[t] = 0)
             /\ \A u \in Threads : SameArgs(t, u) => posts[t] + posts[u] <= 1)

\* C21 (amended): an entry is never removed, every request makes at most one
\* external call, and a request that finds its key in the cache returns the
\* entry without an external call; an entry is replaced only by the store of
\* a request that missed the cache, which stores a result for the same key
C21_EntryKeptOneCallPerRequest ==
    /\ [][/\ DOMAIN retrieval_cache \subseteq DOMAIN retrieval_cache'
          /\ \A k \in DOMAIN retrieval_cache :
                retrieval_cache'[k] # retrieval_cache[k]
                   => \E t \in Threads :
                         /\ pc[t] = "Retrieved" /\ pc'[t] \in {"Generated", "FallbackUsed"}
                         /\ k = GetCacheKey(args[t][1], args[t][2])
                         /\ retrieval_cache'[k] = result'[t]]_vars
    /\ [](\A t \in Threads :
             /\ posts[t] <= 1
             /\ (pc[t] = "CacheHit" => posts[t] = 0 /\ trace[t] = <<"NotStarted", "CacheHit">>))

\* two overlapping requests for the same (query, context) have both called
\* the endpoint, and the entry the first one stored has been replaced
C21_BothCalledEntryReplaced ==
    \E t \in Threads, u \in Threads :
        /\ SameArgs(t, u)
        /\ posts[t] = 1 /\ posts[u] = 1
        /\ pc[t] \in {"Generated", "FallbackUsed"} /\ pc[u] \in {"Generated", "FallbackUsed"}
        /\ result[t] # result[u]
        /\ retrieval_cache[GetCacheKey(args[t][1], args[t][2])] = result[u]


\* a request is inside the loop over knowledge_index.items()
Iterating(t) == pc[t] = "Scoring"

\* C22: add_to_knowledge_base can insert while a retrieve_and_generate call
\* is inside its loop over the index: wherever the reader is in the loop, a
\* thread that is not in a call can do the item assignment, and the reader
\* goes on reading the index the writer changed, not a snapshot, so that its
\* next step on an index that changed size raises RuntimeError
C22_WriterNotExcluded ==
    /\ [](\A t \in Threads :
             Iterating(t) /\ adds < MaxAdds /\ (\E u \in Threads : pc[u] = "Idle")
                => ENABLED (\E u \in Threads : Insert(u)))
    /\ [][\A t \in Threads :
             Iterating(t) /\ <<pc[t], scan[t]>>' # <<pc[t], scan[t]>>
                => IF Len(knowledge_index.items) # scan[t].used
                   THEN pc'[t] = "Raised"
                   ELSE pc'[t] \in {"Scoring", "Retrieved"}]_vars

\* a reader has scored some but not all items of the index it began on, and
\* the index has a different size now: a writer inserted in between
C22_InsertedMidIteration ==
    \E t \in Threads :
        /\ Iterating(t)
        /\ 0 < scan[t].pos /\ scan[t].pos < scan[t].used
        /\ Len(knowledge_index.items) > scan[t].used


---------------------------------------------------------------------------
(* Properties of add_to_knowledge_base and the index file *)

\* the items of the index the file holds (none when it holds no index)
PersistedItems(file) ==
    IF file.kind = "json" /\ file.value.kind = "dict" THEN file.value.items ELSE <<>>

\* add_to_knowledge_base was called and every call has returned
AllReturned == adds > 0 /\ \A t \in Threads : pc[t] # "Inserted"

\* the step is the return of an add_to_knowledge_base call
AddReturns == \E t \in Threads : pc[t] = "Inserted" /\ pc'[t] = "Idle"

\* each call writes the index file exactly once: the file is touched by the
\* save of a call and by nothing else, and a call returns through its save
OneWritePerAdd ==
    /\ (index_file' # index_file \/ last_save' # last_save => AddReturns)
    /\ (AddReturns => /\ last_save' \in SaveOutcomes
                      /\ index_file' = SaveKnowledgeIndex(index_file, knowledge_index,
                                                          last_save'))

C24_AddAndRetrieveFrames ==
    [][/\ (adds' # adds => retrieval_cache' = retrieval_cache)
       /\ (pc' # pc \/ retrieval_cache' # retrieval_cache
             => knowledge_index' = knowledge_index /\ index_file' = index_file)]_vars

\* an item was added to a processor whose cache holds an entry, and a request
\* has completed on the index that holds the added item
C24_AddedWithCacheFilled ==
    /\ adds > 0
    /\ added # {}
    /\ \A id \in added : HasKey(knowledge_index.items, id)
    /\ DOMAIN retrieval_cache # {}
    /\ requests = MaxRequests


\* an earlier call with the arguments of request t returned the fallback of
\* a failed external call
FailedBefore(t) ==
    /\ args[t] \in DOMAIN returned
    /\ returned[args[t]].response = NotGeneratedResponse

\* C26: once a call has returned the fallback of a failed external call,
\* every later call with the same (query, context) is a cache hit: it returns
\* that fallback result and makes no external call, whatever the endpoint
\* would answer now
C26_FallbackCached ==
    \A t \in Threads :
        FailedBefore(t) /\ pc[t] # "Idle"
           => /\ pc[t] \in {"NotStarted", "CacheHit"}
              /\ posts[t] = 0
              /\ external[t] = "none"
              /\ (pc[t] = "CacheHit"
                    => /\ result[t] = returned[args[t]]
                       /\ result[t].response = NotGeneratedResponse)

\* a later call with the arguments of a call whose POST failed has its
\* result: the cached fallback
C26_FallbackReturnedAgain ==
    \E t \in Threads :
        /\ FailedBefore(t)
        /\ pc[t] = "CacheHit"
        /\ openai_api_key # ""
        /\ prior[t] = Some(returned[args[t]])


---------------------------------------------------------------------------
(* Properties of RAGPipeline.retrieve with a topic filter *)

\* the item has a topic, and the filter is a substring of it when both are
\* put in lower case
PassesFilter(item, filter) ==
    /\ "topic" \in DOMAIN item
    /\ Contains(Lower(item["topic"]), Lower(filter))

\* the last retrieve was called with a non-empty topic
Filtered == retrieve_args # NoRetrieve /\ retrieve_args[2] # ""

\* C25: with a non-empty topic, every item retrieve returns has a topic that
\* contains the filter whatever the case of the letters, the items are in
\* non-increasing order of similarity, none has the embedding field, none is
\* a stored item (each is a new dict, with a relevance_score), the call
\* leaves the stored items as they are, and it returns nothing when no
\* stored item passes the filter
C25_TopicFilter ==
    /\ [](Filtered =>
             /\ \A i \in 1..Len(retrieve_out) :
                   /\ PassesFilter(retrieve_out[i], retrieve_args[2])
                   /\ "embedding" \notin DOMAIN retrieve_out[i]
                   /\ "relevance_score" \in DOMAIN retrieve_out[i]
                   /\ retrieve_out[i] \notin Range(knowledge_base)
             /\ \A i \in 1..Len(retrieve_out), j \in 1..Len(retrieve_out) :
                   i < j => ~Less(retrieve_out[i]["relevance_score"],
                                  retrieve_out[j]["relevance_score"]))
    /\ [][<<retrieve_args, retrieve_out>>' # <<retrieve_args, retrieve_out>>
               /\ restarts' = restarts
             => /\ knowledge_base' = knowledge_base
                /\ (/\ retrieve_args'[2] # ""
                    /\ \A i \in 1..Len(knowledge_base) :
                          ~PassesFilter(knowledge_base[i], retrieve_args'[2]))
                      => retrieve_out' = <<>>]_vars

\* retrieve with the topic "FIRE" returned two items of different similarity
\* from a knowledge base that also holds an item the filter rejects
C25_FilteredTwoReturned ==
    /\ Filtered
    /\ retrieve_args[2] = "FIRE"
    /\ Len(retrieve_out) = 2
    /\ Less(retrieve_out[2]["relevance_score"], retrieve_out[1]["relevance_score"])
    /\ \E i \in 1..Len(knowledge_base) : ~PassesFilter(knowledge_base[i], "FIRE")


---------------------------------------------------------------------------
(* Properties of RAGPipeline.enhance_counterpoints *)

\* the step is a call of enhance_counterpoints
Enhances == enhancement' # enhancement

\* what retrieve(text, topic, top_k=1) finds for the counterpoint
TopItem(counterpoint, topic) == Retrieve(knowledge_base, counterpoint["text"], topic, 1)

\* the output is right for the input counterpoint: knowledge_enhanced says
\* whether the top item is there with a similarity above 0.6 (0.36 squared)
EnhancedAsClaimed(out, cp, topic) ==
    LET top       == TopItem(cp, topic)
        supported == /\ top # <<>>
                     /\ top[1]["relevance_score"].num * 25
                           > top[1]["relevance_score"].den * 9
    IN  /\ DOMAIN cp \cup {"knowledge_enhanced"} \subseteq DOMAIN out
        /\ out["knowledge_enhanced"] = supported
        /\ IF supported
           THEN /\ DOMAIN out = DOMAIN cp \cup {"knowledge_enhanced", "source"}
                /\ \A k \in DOMAIN cp \ {"text", "source", "knowledge_enhanced"} :
                      out[k] = cp[k]
                /\ out["text"] = cp["text"] \o " This is supported by evidence: "
                                    \o top[1]["content"]
                /\ out["source"] = top[1]["source"]
           ELSE /\ DOMAIN out = DOMAIN cp \cup {"knowledge_enhanced"}
                /\ \A k \in DOMAIN cp \ {"knowledge_enhanced"} : out[k] = cp[k]

\* C30: enhance_counterpoints returns one output per input counterpoint, in
\* the order of the inputs; every output has knowledge_enhanced, which is true
\* exactly when the top retrieved item has relevance_score > 0.6; such an
\* output differs from its input in text (the evidence is appended) and
\* source (the source of the item) only, every other output is its input
\* with knowledge_enhanced added; the knowledge base is left as it is
C30_EnhanceCounterpoints ==
    [][Enhances =>
          LET cps   == enhance_args'[1]
              topic == enhance_args'[2]
              out   == enhance_out'.counterpoints
          IN  /\ ~enhance_out'.raised
              /\ knowledge_base' = knowledge_base
              /\ Len(out) = Len(cps)
              /\ \A i \in 1..Len(cps) :
                    EnhancedAsClaimed(out[i], cps[i], topic)]_vars

\* a call on three counterpoints enhanced one of them and left another, whose
\* top item has a positive similarity below the threshold, as it was
C30_OneEnhancedOneNot ==
    /\ Len(enhance_args[1]) = 3
    /\ Len(enhance_out.counterpoints) = 3
    /\ \E i \in 1..3, j \in 1..3 :
          /\ enhance_out.counterpoints[i]["knowledge_enhanced"]
          /\ enhance_out.counterpoints[i]["source"] # "Debater"
          /\ ~enhance_out.counterpoints[j]["knowledge_enhanced"]
          /\ LET top == Retrieve(knowledge_base, enhance_args[1][j]["text"],
                                 enhance_args[2], 1)
             IN  top # <<>> /\ top[1]["relevance_score"].num > 0

---------------------------------------------------------------------------
(* Properties of CounterpointEngine.generate_counterpoints *)

\* the call has put its result together
CounterpointsDone == cp_pc = "Done" /\ cp_result # None

\* the strongest counterpoint is one of the list and no other is stronger
StrongestOf(strongest, cps) ==
    /\ strongest \in Range(cps)
    /\ \A i \in 1..Len(cps) :
          StrategyStrength(cps[i].strategy) <= StrategyStrength(strongest.strategy)

\* what generate_counterpoints returns for a count of zero or more
ReturnsAsCounted ==
    CounterpointsDone /\ cp_args[3] >= 0 =>
        LET out == cp_result[1]
        IN  /\ Len(out.counterpoints) = cp_args[3]
            /\ (out.strongest_counterpoint = None) = (out.counterpoints = <<>>)
            /\ out.counterpoints # <<>> =>
                  StrongestOf(out.strongest_counterpoint[1], out.counterpoints)

\* C29: generate_counterpoints terminates for every argument, topic, level
\* and count; for every count >= 0 it returns exactly count counterpoints,
\* and strongest_counterpoint is a member of the returned list whose strategy
\* strength is maximal, None only when the list is empty.
C29_TerminatesAndCounts ==
    /\ []ReturnsAsCounted
    /\ (cp_pc = "Called") ~> (cp_pc = "Done")

\* C29 witness: a call with count 4 has returned four counterpoints, the
\* last filled in by the generic generator, and the strongest is not the
\* first of the list
C29_FilledAndStrongestInside ==
    /\ CounterpointsDone
    /\ cp_args[3] = 4
    /\ Len(cp_result[1].counterpoints) = 4
    /\ cp_result[1].counterpoints[4].strategy = "generic_challenge"
    /\ cp_result[1].strongest_counterpoint = Some(cp_result[1].counterpoints[2])
    /\ cp_result[1].strongest_counterpoint # Some(cp_result[1].counterpoints[1])

---------------------------------------------------------------------------
(* Properties of the web layer *)

\* the last response answers the given endpoint with a body
Answered(endpoint) ==
    /\ web_request # <<>>
    /\ web_request.endpoint = endpoint
    /\ web_response # <<>>
    /\ web_response.status = 200

\* C27: /reasoning/analyze-argument called without context returns an
\* analysis that carries no retrieved_information and no enhanced_response
\* field, for every text and whatever requests were served before it,
\* including an earlier request for the same text with a context.
C27_NoContextNoRagFields ==
    Answered("analyze-argument") /\ ~HasContext(web_request) =>
        /\ "retrieved_information" \notin DOMAIN web_response.body
        /\ "enhanced_response" \notin DOMAIN web_response.body

\* C28: a request to /reasoning/analyze-argument or to
\* /debate/generate-counterpoints is processed at the level it carries (1
\* when omitted), whatever levels earlier requests carried: the engine is at
\* that level when the response is made, and the rebuttal difficulty of
\* generated counterpoints is the one of that level.
C28_ProcessedAtRequestLevel ==
    /\ Answered("analyze-argument") => complexity_level = web_request.level
    /\ Answered("generate-counterpoints") =>
          /\ level = web_request.level
          /\ web_response.body.rebuttal_difficulty
                = RebuttalDifficulty(web_response.body.counterpoints, web_request.level)

====
